---- MODULE Spec2Model ----
(***************************************************************************)
(* Model of netlify/functions/process-invoice.js of wild-octave-invoice.   *)
(* The file holds three versions of the same serverless handler (Debug,    *)
(* lines 1-558; Hybrid, lines 560-921; Azure-only, lines 923-1453).  One   *)
(* of them is deployed; `variant` says which.                              *)
(*                                                                         *)
(* JavaScript strings whose content the code inspects (multipart bytes,    *)
(* OCR text, descriptions, file names) are sequences of one-character      *)
(* strings; "CR", "LF", "TAB" and "dq" stand for \r, \n, \t and the double *)
(* quote.  JavaScript objects are records; an absent property is an absent *)
(* field.  Money is an integer number of 1/10000 dollars, a markup factor  *)
(* an integer number of hundredths.                                        *)
(***************************************************************************)
EXTENDS Integers, Sequences, FiniteSets, TLC

VARIABLES
    variant,      \* which version of the handler is deployed
    env,          \* process.env as read at module load (AZURE_CONFIG, ABACUS_CONFIG)
    pc,           \* position of the handler in the current request
    event,        \* the request being handled
    file,         \* parts.file once decoded
    azureData,    \* the Invoice returned by extraction
    enhancedData, \* the Invoice after the business rules
    abacusOutcome,\* how the enhancement service answered the current request
    pending,      \* the backend call the handler is awaiting
    calls,        \* backend calls made for the current request, per backend
    log,          \* the steps of the current request, in order
    responses,    \* the responses returned for the current request
    ocrReply,     \* the reply of an OCR model that extraction received last
    parked,       \* the locals of the other invocation, suspended at an await
    ui            \* the state of the review UI (InvoiceProcessor of index.html)

vars == <<variant, env, pc, event, file, azureData, enhancedData, abacusOutcome,
          pending, calls, log, responses, ocrReply, parked, ui>>

----------------------------------------------------------------------------
(* String and Buffer primitives                                            *)

\* Body applied to the value of x, which is computed once
Let(x, Body(_)) == CHOOSE r \in {Body(v) : v \in {x}} : TRUE

Min(S) == Let(S, LAMBDA T : CHOOSE x \in T : \A y \in T : x <= y)

Max(S) == Let(S, LAMBDA T : CHOOSE x \in T : \A y \in T : x >= y)

WhiteSpace == {" ", "TAB", "CR", "LF"}

Digits == {"0", "1", "2", "3", "4", "5", "6", "7", "8", "9"}

UpperCase ==
    <<"A", "B", "C", "D", "E", "F", "G", "H", "I", "J", "K", "L", "M", "N", "O", "P", "Q",
      "R", "S", "T", "U", "V", "W", "X", "Y", "Z">>

LowerCase ==
    <<"a", "b", "c", "d", "e", "f", "g", "h", "i", "j", "k", "l", "m", "n", "o", "p", "q",
      "r", "s", "t", "u", "v", "w", "x", "y", "z">>

\* String.prototype.toLowerCase
toLowerCase(s) ==
    Let(s, LAMBDA t :
        [i \in 1..Len(t) |->
            IF \E k \in 1..26 : UpperCase[k] = t[i]
            THEN LowerCase[CHOOSE k \in 1..26 : UpperCase[k] = t[i]]
            ELSE t[i]])

\* Buffer.prototype.slice / String.prototype.slice(a, b), 0-based, b exclusive
slice(s, a, b) == SubSeq(s, a + 1, b)

\* Buffer.prototype.indexOf / String.prototype.indexOf(pat, start): 0-based, -1 when absent
indexOf(s, pat, start) ==
    Let(s, LAMBDA t :
    Let({i \in start..(Len(t) - Len(pat)) : SubSeq(t, i + 1, i + Len(pat)) = pat},
        LAMBDA hits : IF hits = {} THEN -1 ELSE Min(hits)))

\* String.prototype.includes
includes(s, pat) == indexOf(s, pat, 0) # -1

\* String.prototype.trim
trim(s) ==
    Let(s, LAMBDA t :
    Let({i \in 1..Len(t) : t[i] \notin WhiteSpace},
        LAMBDA solid : IF solid = {} THEN <<>> ELSE SubSeq(t, Min(solid), Max(solid))))

\* String.prototype.split(pat), pat a non-empty string
RECURSIVE split(_, _)
split(s, pat) ==
    Let(s, LAMBDA t :
    Let(indexOf(t, pat, 0), LAMBDA i :
        IF i = -1 THEN <<t>>
        ELSE <<slice(t, 0, i)>> \o split(slice(t, i + Len(pat), Len(t)), pat)))

----------------------------------------------------------------------------
(* parseMultipartForm (identical in the three versions)                    *)

S_ContentType == <<"C", "o", "n", "t", "e", "n", "t", "-", "T", "y", "p", "e", ":">>

S_file == <<"f", "i", "l", "e">>

\* headers.match(/key"([^"]+)"/): <<>> when there is no match, else <<captured group>>
matchQuoted(headers, key) ==
    Let(headers, LAMBDA h :
    Let(key \o <<"dq">>, LAMBDA pat :
    Let({i \in 0..(Len(h) - Len(pat)) :
            /\ SubSeq(h, i + 1, i + Len(pat)) = pat
            /\ indexOf(h, <<"dq">>, i + Len(pat)) > i + Len(pat)},
        LAMBDA hits :
            IF hits = {} THEN <<>>
            ELSE Let(Min(hits) + Len(pat),
                     LAMBDA v : <<slice(h, v, indexOf(h, <<"dq">>, v))>>))))

\* 0-based end (exclusive) of the white-space run of h that starts at a
wsEnd(h, a) ==
    IF \A j \in a..(Len(h) - 1) : h[j + 1] \in WhiteSpace THEN Len(h)
    ELSE Min({j \in a..(Len(h) - 1) : h[j + 1] \notin WhiteSpace})

\* where the group of /Content-Type:\s*([^\r\n]+)/ can start for a match at i:
\* \s* is greedy and gives back
groupStarts(h, i) ==
    Let(i + Len(S_ContentType), LAMBDA a :
        {p \in a..Min({wsEnd(h, a), Len(h) - 1}) : h[p + 1] \notin {"CR", "LF"}})

\* headers.match(/Content-Type:\s*([^\r\n]+)/): <<>> or <<captured group>>
matchContentType(headers) ==
    Let(headers, LAMBDA h :
    Let({i \in 0..(Len(h) - Len(S_ContentType)) :
            /\ SubSeq(h, i + 1, i + Len(S_ContentType)) = S_ContentType
            /\ groupStarts(h, i) # {}},
        LAMBDA hits :
            IF hits = {} THEN <<>>
            ELSE Let(Max(groupStarts(h, Min(hits))), LAMBDA p :
                 Let({j \in p..(Len(h) - 1) : h[j + 1] \in {"CR", "LF"}}, LAMBDA stop :
                     <<slice(h, p, IF stop = {} THEN Len(h) ELSE Min(stop))>>))))

\* the while loop of lines 521-527: the byte ranges between boundary markers
RECURSIVE sectionsFrom(_, _, _)
sectionsFrom(bodyBuffer, boundaryBuffer, start) ==
    Let(indexOf(bodyBuffer, boundaryBuffer, start), LAMBDA boundaryIndex :
        IF boundaryIndex = -1 THEN <<>>
        ELSE (IF start # boundaryIndex
              THEN <<slice(bodyBuffer, start, boundaryIndex)>> ELSE <<>>)
             \o sectionsFrom(bodyBuffer, boundaryBuffer,
                             boundaryIndex + Len(boundaryBuffer)))

\* the part object of lines 544-550
filePart(headers, content) ==
    Let(matchQuoted(headers, <<"f", "i", "l", "e", "n", "a", "m", "e", "=">>), LAMBDA filenameMatch :
    Let(matchContentType(headers), LAMBDA contentTypeMatch :
        [filename    |-> IF filenameMatch # <<>> THEN filenameMatch[1] ELSE <<"u", "p", "l", "o", "a", "d", "e", "d", "_", "f", "i", "l", "e">>,
         contentType |-> IF contentTypeMatch # <<>> THEN contentTypeMatch[1] ELSE <<"a", "p", "p", "l", "i", "c", "a", "t", "i", "o", "n", "/", "o", "c", "t", "e", "t", "-", "s", "t", "r", "e", "a", "m">>,
         data        |-> content]))

\* one iteration of the for loop of lines 529-555: parts after this section
partsAfter(parts, section) ==
    Let(indexOf(section, <<"CR", "LF", "CR", "LF">>, 0), LAMBDA headerEndIndex :
    Let(slice(section, 0, headerEndIndex), LAMBDA headers :
    Let(slice(section, headerEndIndex + 4, Len(section)), LAMBDA content :
    Let(matchQuoted(headers, <<"n", "a", "m", "e", "=">>), LAMBDA nameMatch :
        IF Len(section) = 0 \/ headerEndIndex = -1 \/ nameMatch = <<>> THEN parts
        ELSE IF nameMatch[1] = S_file
        THEN (S_file :> filePart(headers, content)) @@ parts
        ELSE (nameMatch[1] :> trim(content)) @@ parts))))

\* the for loop of lines 529-555 over the sections, left to right
RECURSIVE partsOf(_, _)
partsOf(parts, sections) ==
    IF sections = <<>> THEN parts
    ELSE Let(partsAfter(parts, Head(sections)),
             LAMBDA after : partsOf(after, Tail(sections)))

\* contentType?.split('boundary=')[1]: <<>> when undefined, else <<boundary>>
boundaryOf(headers) ==
    IF "content-type" \notin DOMAIN headers THEN <<>>
    ELSE Let(split(headers["content-type"], <<"b", "o", "u", "n", "d", "a", "r", "y", "=">>), LAMBDA pieces :
             IF Len(pieces) < 2 THEN <<>> ELSE <<pieces[2]>>)

\* parseMultipartForm(body, contentType).  The body is the byte sequence that
\* Buffer.from(body, 'base64') yields.
parseMultipartForm(body, headers) ==
    Let(boundaryOf(headers), LAMBDA boundary :
        IF boundary = <<>> \/ boundary[1] = <<>>
        THEN [threw |-> TRUE, message |-> "No boundary found in content-type header"]
        ELSE Let(sectionsFrom(body, <<"-", "-">> \o boundary[1], 0), LAMBDA sections :
                 [threw |-> FALSE, parts |-> partsOf(<<>>, sections)]))

----------------------------------------------------------------------------
(* Numbers                                                                 *)

\* money is kept in 1/Scale dollars
Scale == 10000

DigitChars == <<"0", "1", "2", "3", "4", "5", "6", "7", "8", "9">>

digitValue(c) == (CHOOSE k \in 1..10 : DigitChars[k] = c) - 1

\* the value of a run of digits
RECURSIVE digitsValue(_)
digitsValue(ds) ==
    IF ds = <<>> THEN 0
    ELSE 10 * digitsValue(SubSeq(ds, 1, Len(ds) - 1)) + digitValue(ds[Len(ds)])

\* String(n) for a natural number n
RECURSIVE numberToString(_)
numberToString(n) ==
    IF n < 10 THEN <<DigitChars[n + 1]>>
    ELSE numberToString(n \div 10) \o <<DigitChars[(n % 10) + 1]>>

\* the leading run of characters of s that are in set
leadingRun(s, set) ==
    Let(s, LAMBDA t :
    Let({i \in 1..Len(t) : t[i] \notin set}, LAMBDA others :
        IF others = {} THEN t ELSE SubSeq(t, 1, Min(others) - 1)))

\* parseFloat(s) for s made of digits and dots (no sign, no exponent):
\* <<>> for NaN, else <<value in 1/Scale>>; decimals beyond the fourth are dropped
parseFloat(s) ==
    Let(s, LAMBDA t :
    Let(leadingRun(t, Digits), LAMBDA int :
    Let(SubSeq(t, Len(int) + 1, Len(t)), LAMBDA rest :
    Let(IF rest # <<>> /\ rest[1] = "." THEN leadingRun(Tail(rest), Digits) ELSE <<>>,
        LAMBDA frac :
            IF int = <<>> /\ frac = <<>> THEN <<>>
            ELSE <<digitsValue(int) * Scale
                   + digitsValue(SubSeq(frac \o <<"0", "0", "0", "0">>, 1, 4))>>))))

\* s without the characters of set
RECURSIVE without(_, _)
without(s, set) ==
    IF s = <<>> THEN <<>>
    ELSE (IF Head(s) \in set THEN <<>> ELSE <<Head(s)>>) \o without(Tail(s), set)

\* x * p / 100 for a percentage p
percent(x, p) == (x * p) \div 100

RECURSIVE sum(_)
sum(ns) == IF ns = <<>> THEN 0 ELSE Head(ns) + sum(Tail(ns))

----------------------------------------------------------------------------
(* Text-pattern parser, Debug version (lines 225-287)                      *)

S_UnknownSupplier ==
    <<"U", "n", "k", "n", "o", "w", "n", " ", "S", "u", "p", "p", "l", "i", "e", "r">>

S_invoice == <<"i", "n", "v", "o", "i", "c", "e">>

S_total == <<"t", "o", "t", "a", "l">>

S_each == <<"e", "a", "c", "h">>

S_NoItemsIdentified ==
    <<"T", "e", "x", "t", " ", "e", "x", "t", "r", "a", "c", "t", "e", "d", " ", "b", "u", "t",
      " ", "n", "o", " ", "i", "t", "e", "m", "s", " ", "i", "d", "e", "n", "t", "i", "f", "i",
      "e", "d">>

\* the empty invoice header both parsers and the placeholders return
emptyInvoiceMeta == [number |-> <<>>, date |-> <<>>, due_date |-> <<>>, po_number |-> <<>>]

\* lineItem had the items been numbered by the index of the array
lineItem_numbersFromZero(n, code, desc, qty, cost, total, unit) ==
    [line_number        |-> n - 1,
     product_code       |-> code,
     description        |-> desc,
     quantity           |-> qty,
     unit_cost          |-> cost,
     line_total_ex_gst  |-> total,
     gst_amount         |-> percent(total, 10),
     line_total_inc_gst |-> percent(total, 110),
     unit               |-> unit]

\* a canonical line item
lineItem(n, code, desc, qty, cost, total, unit) ==
    [line_number        |-> n,
     product_code       |-> code,
     description        |-> desc,
     quantity           |-> qty,
     unit_cost          |-> cost,
     line_total_ex_gst  |-> total,
     gst_amount         |-> percent(total, 10),
     line_total_inc_gst |-> percent(total, 110),
     unit               |-> unit]

nonBlank(line) == Len(trim(line)) > 0

\* the condition of lines 230-233 on a line
supplierOk_Debug(line) ==
    /\ Len(line) > 5
    /\ line[1] \notin Digits
    /\ ~includes(toLowerCase(line), S_invoice)
    /\ ~includes(toLowerCase(line), S_total)

\* lines.find(...) of lines 229-234: <<>> or <<the line>>
supplierLine_Debug(lines) ==
    Let({i \in 1..Len(lines) : supplierOk_Debug(lines[i])}, LAMBDA hits :
        IF hits = {} THEN <<>> ELSE <<lines[Min(hits)]>>)

\* the match of /\$?(\d+\.?\d*)/ at the head of rest, which starts with a digit
priceFrom_Debug(rest) ==
    Let(leadingRun(rest, Digits), LAMBDA int :
    Let(SubSeq(rest, Len(int) + 1, Len(rest)), LAMBDA tail :
        IF tail # <<>> /\ tail[1] = "."
        THEN int \o <<".">> \o leadingRun(Tail(tail), Digits)
        ELSE int))

\* line.match(/\$?(\d+\.?\d*)/g)[0] with the '$' removed: <<>> when there is no
\* match, else <<the digits and dot of the first match>>
firstPrice_Debug(line) ==
    Let({i \in 1..Len(line) : line[i] \in Digits}, LAMBDA starts :
        IF starts = {} THEN <<>>
        ELSE <<priceFrom_Debug(SubSeq(line, Min(starts), Len(line)))>>)

\* line.replace(/\$?[\d.]+/g, ''): digits and dots go, and a '$' right before one
stripPrices_Debug(line) ==
    SelectSeq([i \in 1..Len(line) |->
                  IF \/ line[i] \in Digits \union {"."}
                     \/ /\ line[i] = "$"
                        /\ i < Len(line)
                        /\ line[i + 1] \in Digits \union {"."}
                  THEN "" ELSE line[i]],
              LAMBDA c : c # "")

\* the price of lines 241-244 on a line: <<>> or <<price>>
priceOf_Debug(line) ==
    Let(firstPrice_Debug(line), LAMBDA found :
        IF found = <<>> THEN <<>> ELSE parseFloat(found[1]))

\* hasItem_Debug had the parser accepted every price above half a dollar
hasItem_Debug_aboveHalfDollar(line) ==
    Let(priceOf_Debug(line), LAMBDA price :
        price # <<>> /\ price[1] > Scale \div 2 /\ price[1] < 10000 * Scale)

\* the condition of lines 242 and 246 on a line: it yields an item
hasItem_Debug(line) ==
    Let(priceOf_Debug(line), LAMBDA price :
        price # <<>> /\ price[1] > 1 * Scale /\ price[1] < 10000 * Scale)

\* the item of lines 247-257 for the n-th line that yields one
itemOf_Debug(line, n) ==
    Let(priceOf_Debug(line), LAMBDA price :
    Let(trim(stripPrices_Debug(line)), LAMBDA desc :
        lineItem(n, <<>>, IF desc = <<>> THEN <<"I", "n", "v", "o", "i", "c", "e", " ", "I", "t", "e", "m">> ELSE desc,
                 1, price[1], price[1], S_each)))

\* the for loop of lines 240-259: items.length + 1 numbers the lines that
\* yield an item
itemsFrom_Debug(lines) ==
    Let(SelectSeq(lines, hasItem_Debug), LAMBDA priced :
        [n \in 1..Len(priced) |-> itemOf_Debug(priced[n], n)])

\* the field f of every element of a list
pluck(xs, f) == [i \in 1..Len(xs) |-> xs[i][f]]

parseTextToInvoiceData_Debug(text) ==
    Let(SelectSeq(split(text, <<"LF">>), nonBlank), LAMBDA lines :
    Let(supplierLine_Debug(lines), LAMBDA supplier :
    Let(itemsFrom_Debug(lines), LAMBDA found :
    Let(IF Len(found) = 0
        THEN <<lineItem(1, <<>>, S_NoItemsIdentified, 1, 0, 0, S_each)>>
        ELSE found,
        LAMBDA items :
            [supplier   |-> [name |-> IF supplier = <<>> THEN S_UnknownSupplier
                                      ELSE supplier[1]],
             invoice    |-> emptyInvoiceMeta,
             line_items |-> items,
             totals     |-> [subtotal_ex_gst |-> sum(pluck(items, "line_total_ex_gst")),
                             gst_amount      |-> sum(pluck(items, "gst_amount")),
                             total_inc_gst   |-> sum(pluck(items, "line_total_inc_gst"))]]))))

----------------------------------------------------------------------------
(* Text-pattern parser, Azure-only version (lines 1156-1269)               *)

S_tax == <<"t", "a", "x">>

S_date == <<"d", "a", "t", "e">>

S_NoClearItems ==
    <<"T", "e", "x", "t", " ", "e", "x", "t", "r", "a", "c", "t", "e", "d", " ", "b", "u", "t",
      " ", "n", "o", " ", "c", "l", "e", "a", "r", " ", "l", "i", "n", "e", " ", "i", "t", "e",
      "m", "s", " ", "f", "o", "u", "n", "d">>

longEnough(line) == Len(trim(line)) > 2

\* line.match(/\d{2}\/\d{2}\/\d{4}/)
hasDate(line) ==
    \E i \in 1..(Len(line) - 9) :
        /\ \A k \in {0, 1, 3, 4, 6, 7, 8, 9} : line[i + k] \in Digits
        /\ line[i + 2] = "/"
        /\ line[i + 5] = "/"

\* the condition of lines 1166-1173 on a trimmed line
supplierOk_AzureOnly(line) ==
    /\ Len(line) > 5
    /\ line[1] \notin Digits
    /\ Let(toLowerCase(line), LAMBDA lower :
           /\ ~includes(lower, S_invoice)
           /\ ~includes(lower, S_tax)
           /\ ~includes(lower, S_total)
           /\ ~includes(lower, S_date))
    /\ line[1] # "$"
    /\ ~hasDate(line)

\* the for loop of lines 1163-1178
supplier_AzureOnly(lines) ==
    Let([i \in 1..Len(lines) |-> trim(lines[i])], LAMBDA trimmed :
    Let({i \in 1..Min({10, Len(trimmed)}) : supplierOk_AzureOnly(trimmed[i])}, LAMBDA hits :
        IF hits = {} THEN S_UnknownSupplier ELSE trimmed[Min(hits)]))

\* the condition of lines 1190-1197 on a trimmed line
skipped_AzureOnly(line) ==
    Let(toLowerCase(line), LAMBDA lower :
        \/ includes(lower, S_total)
        \/ includes(lower, <<"s", "u", "b", "t", "o", "t", "a", "l">>)
        \/ includes(lower, <<"g", "s", "t">>)
        \/ includes(lower, S_tax)
        \/ includes(lower, S_invoice)
        \/ includes(lower, S_date)
        \/ includes(lower, <<"a", "b", "n">>)
        \/ Len(line) < 3)

\* the match of /\$?([\d,]+\.?\d*)/ at the head of s, without its '$': <<>> when
\* s does not start with a match
priceAtHead(s) ==
    Let(IF s # <<>> /\ Head(s) = "$" THEN Tail(s) ELSE s, LAMBDA body :
    Let(leadingRun(body, Digits \union {","}), LAMBDA run :
    Let(SubSeq(body, Len(run) + 1, Len(body)), LAMBDA tail :
        IF run # <<>> /\ tail # <<>> /\ tail[1] = "."
        THEN run \o <<".">> \o leadingRun(Tail(tail), Digits)
        ELSE run)))

\* the characters s loses to a match tok at its head: the match and its '$'
priceWidth(s, tok) == Len(tok) + (IF Head(s) = "$" THEN 1 ELSE 0)

\* line.match(/\$?([\d,]+\.?\d*)/g) with each '$' removed, left to right
RECURSIVE priceMatches(_)
priceMatches(s) ==
    Let(s, LAMBDA t :
        IF t = <<>> THEN <<>>
        ELSE Let(priceAtHead(t), LAMBDA tok :
                 IF tok # <<>>
                 THEN <<tok>> \o priceMatches(SubSeq(t, priceWidth(t, tok) + 1, Len(t)))
                 ELSE priceMatches(Tail(t))))

\* line.replace(/\$?[\d,]+\.?\d*/g, '')
RECURSIVE withoutPrices(_)
withoutPrices(s) ==
    Let(s, LAMBDA t :
        IF t = <<>> THEN <<>>
        ELSE Let(priceAtHead(t), LAMBDA tok :
                 IF tok # <<>>
                 THEN withoutPrices(SubSeq(t, priceWidth(t, tok) + 1, Len(t)))
                 ELSE <<Head(t)>> \o withoutPrices(Tail(t))))

\* prices.find(p => p > 1 && p < 10000) over the parsed matches: <<>> or <<price>>
mainPriceOf(matches) ==
    Let([i \in 1..Len(matches) |-> parseFloat(without(matches[i], {","}))], LAMBDA prices :
    Let({i \in 1..Len(prices) :
            /\ prices[i] # <<>>
            /\ prices[i][1] > 1 * Scale
            /\ prices[i][1] < 10000 * Scale},
        LAMBDA hits : IF hits = {} THEN <<>> ELSE prices[Min(hits)]))

\* the number of white-space characters of d from position a on
wsRun(d, a) == Len(leadingRun(SubSeq(d, a, Len(d)), WhiteSpace))

\* The ways /(\d+)\s*x?\s*(.+)/i can match d from the digit at i, as
\* <<i, e, k1, x, k2>>: digits up to e, k1 white-space characters, x = 1 when an
\* 'x' is taken, k2 more white-space characters, then at least one character
\* that is not a line terminator.
qtyCandidates(d, i) ==
    {c \in UNION {UNION {{<<i, e, k1, x, k2>> : x \in {0, 1}, k2 \in 0..Len(d)}
                         : k1 \in 0..wsRun(d, e + 1)}
                  : e \in i..(i + Len(leadingRun(SubSeq(d, i, Len(d)), Digits)) - 1)} :
        /\ c[4] = 1 => (c[2] + 1 + c[3] <= Len(d) /\ d[c[2] + 1 + c[3]] \in {"x", "X"})
        /\ c[5] <= wsRun(d, c[2] + 1 + c[3] + c[4])
        /\ c[2] + 1 + c[3] + c[4] + c[5] <= Len(d)
        /\ d[c[2] + 1 + c[3] + c[4] + c[5]] \notin {"CR", "LF"}}

\* the regular-expression engine prefers the larger e, k1, x, k2, in that order
preferred(a, b) == \E k \in 2..5 : (\A j \in 2..(k - 1) : a[j] = b[j]) /\ a[k] > b[k]

\* description.match(/(\d+)\s*x?\s*(.+)/i): <<>> or <<group 1, group 2>>; the
\* engine takes the leftmost digit from which there is a match
matchQty(description) ==
    Let(description, LAMBDA d :
    Let({i \in 1..Len(d) : d[i] \in Digits /\ qtyCandidates(d, i) # {}}, LAMBDA starts :
        IF starts = {} THEN <<>>
        ELSE Let(qtyCandidates(d, Min(starts)), LAMBDA cands :
             Let(CHOOSE c \in cands : \A o \in cands : o # c => preferred(c, o), LAMBDA best :
             Let(best[2] + 1 + best[3] + best[4] + best[5], LAMBDA g :
             Let({j \in g..Len(d) : d[j] \in {"CR", "LF"}}, LAMBDA stop :
                 <<SubSeq(d, best[1], best[2]),
                   SubSeq(d, g, IF stop = {} THEN Len(d) ELSE Min(stop) - 1)>>))))))

\* the condition of lines 1190-1197 and 1206 on a line: it yields an item
hasItem_AzureOnly(rawLine) ==
    Let(trim(rawLine), LAMBDA line :
        ~skipped_AzureOnly(line) /\ mainPriceOf(priceMatches(line)) # <<>>)

\* the description of lines 1209-1210 for the n-th item
descriptionOf_AzureOnly(line, n) ==
    Let(trim(withoutPrices(line)), LAMBDA kept :
        IF kept = <<>> THEN <<"L", "i", "n", "e", " ", "I", "t", "e", "m", " ">> \o numberToString(n) ELSE kept)

\* the item of lines 1205-1234 for the n-th line that yields one
itemOf_AzureOnly(rawLine, n) ==
    Let(trim(rawLine), LAMBDA line :
    Let(mainPriceOf(priceMatches(line)), LAMBDA mainPrice :
    Let(descriptionOf_AzureOnly(line, n), LAMBDA description :
    Let(matchQty(description), LAMBDA qtyMatch :
    Let(IF qtyMatch = <<>> THEN 1 ELSE digitsValue(qtyMatch[1]), LAMBDA quantity :
        lineItem(n, <<>>,
                 IF qtyMatch = <<>> THEN description ELSE trim(qtyMatch[2]),
                 quantity, mainPrice[1] \div quantity, mainPrice[1], S_each))))))

\* the for loop of lines 1184-1236: items.length + 1 numbers the lines that
\* yield an item
itemsFrom_AzureOnly(lines) ==
    Let(SelectSeq(lines, hasItem_AzureOnly), LAMBDA priced :
        [n \in 1..Len(priced) |-> itemOf_AzureOnly(priced[n], n)])

\* parseTextToInvoiceData_AzureOnly had it emitted three placeholder items when
\* it finds no item
parseTextToInvoiceData_AzureOnly_threePlaceholders(text) ==
    Let(SelectSeq(split(text, <<"LF">>), longEnough), LAMBDA lines :
    Let(itemsFrom_AzureOnly(lines), LAMBDA found :
    Let(IF Len(found) = 0
        THEN [n \in 1..3 |-> lineItem(n, <<>>, S_NoClearItems, 1, 0, 0, S_each)]
        ELSE found,
        LAMBDA items :
        [supplier   |-> [name |-> supplier_AzureOnly(lines)],
         invoice    |-> emptyInvoiceMeta,
         line_items |-> items,
         totals     |-> [subtotal_ex_gst |-> sum(pluck(items, "line_total_ex_gst")),
                         gst_amount      |-> sum(pluck(items, "gst_amount")),
                         total_inc_gst   |-> sum(pluck(items, "line_total_ex_gst"))
                                             + sum(pluck(items, "gst_amount"))],
         extraction_method |-> <<"T", "e", "x", "t", " ", "P", "a", "r", "s", "i", "n", "g">>])))

parseTextToInvoiceData_AzureOnly(text) ==
    Let(SelectSeq(split(text, <<"LF">>), longEnough), LAMBDA lines :
    Let(itemsFrom_AzureOnly(lines), LAMBDA found :
    Let(IF Len(found) = 0
        THEN <<lineItem(1, <<>>, S_NoClearItems, 1, 0, 0, S_each)>>
        ELSE found,
        LAMBDA items :
    Let(sum(pluck(items, "line_total_ex_gst")), LAMBDA totalExGst :
    Let(sum(pluck(items, "gst_amount")), LAMBDA totalGst :
        [supplier   |-> [name |-> supplier_AzureOnly(lines)],
         invoice    |-> emptyInvoiceMeta,
         line_items |-> items,
         totals     |-> [subtotal_ex_gst |-> totalExGst,
                         gst_amount      |-> totalGst,
                         total_inc_gst   |-> totalExGst + totalGst],
         extraction_method |-> <<"T", "e", "x", "t", " ", "P", "a", "r", "s", "i", "n", "g">>])))))

----------------------------------------------------------------------------
(* Structured-field mapper                                                 *)
(* A document is its `fields` object and an item its `valueObject`; a      *)
(* field holds its content (a string) or its valueNumber directly, and an  *)
(* absent field is an absent property.                                     *)

S_NoItemsAzure ==
    <<"N", "o", " ", "l", "i", "n", "e", " ", "i", "t", "e", "m", "s", " ", "d", "e", "t", "e",
      "c", "t", "e", "d", " ", "b", "y", " ", "A", "z", "u", "r", "e">>

S_Item == <<"I", "t", "e", "m", " ">>

\* obj.f?.content || d
contentOr(obj, f, d) == IF f \in DOMAIN obj /\ obj[f] # <<>> THEN obj[f] ELSE d

\* obj.f?.valueNumber || d
numberOr(obj, f, d) == IF f \in DOMAIN obj /\ obj[f] # 0 THEN obj[f] ELSE d

\* the map callback of lines 328-346 (Debug) and 733-751 (Hybrid)
mapLineItem(itemFields, index) ==
    LET quantity  == numberOr(itemFields, "Quantity", 1)
        unitPrice == numberOr(itemFields, "UnitPrice", 0)
        lineTotal == numberOr(itemFields, "Amount", quantity * unitPrice)
    IN  lineItem(index + 1,
                 contentOr(itemFields, "ProductCode", <<>>),
                 contentOr(itemFields, "Description", S_Item \o numberToString(index + 1)),
                 quantity, unitPrice, lineTotal,
                 contentOr(itemFields, "Unit", S_each))

\* the map callback of lines 1130-1153 (Azure-only)
mapLineItem_AzureOnly(itemFields, index) ==
    LET description == contentOr(itemFields, "Description",
                           contentOr(itemFields, "ProductCode",
                               S_Item \o numberToString(index + 1)))
        quantity  == numberOr(itemFields, "Quantity", 1)
        unitPrice == numberOr(itemFields, "UnitPrice", 0)
        lineTotal == numberOr(itemFields, "Amount", quantity * unitPrice)
    IN  lineItem(index + 1,
                 contentOr(itemFields, "ProductCode", <<>>),
                 description, quantity, unitPrice, lineTotal,
                 contentOr(itemFields, "Unit", S_each))

extractLineItems_Debug(azureItems) ==
    IF Len(azureItems) = 0
    THEN <<lineItem(1, <<>>, S_NoItemsAzure, 1, 0, 0, S_each)>>
    ELSE [i \in 1..Len(azureItems) |-> mapLineItem(azureItems[i], i - 1)]

extractLineItems_Hybrid(azureItems) ==
    [i \in 1..Len(azureItems) |-> mapLineItem(azureItems[i], i - 1)]

extractLineItemsFromAzure(azureItems) ==
    IF Len(azureItems) = 0 THEN <<>>
    ELSE [i \in 1..Len(azureItems) |-> mapLineItem_AzureOnly(azureItems[i], i - 1)]

\* fields.Items?.valueArray || []
itemsOf(fields) == IF "Items" \in DOMAIN fields THEN fields.Items ELSE <<>>

invoiceMetaOf(fields) ==
    [number    |-> contentOr(fields, "InvoiceId", <<>>),
     date      |-> contentOr(fields, "InvoiceDate", <<>>),
     due_date  |-> contentOr(fields, "DueDate", <<>>),
     po_number |-> contentOr(fields, "PurchaseOrder", <<>>)]

totalsOf(fields) ==
    [subtotal_ex_gst |-> numberOr(fields, "SubTotal", 0),
     gst_amount      |-> numberOr(fields, "TotalTax", 0),
     total_inc_gst   |-> numberOr(fields, "InvoiceTotal", 0)]

transformAzureData_Debug(fields) ==
    [supplier   |-> [name    |-> contentOr(fields, "VendorName", S_UnknownSupplier),
                     address |-> contentOr(fields, "VendorAddress", <<>>),
                     abn     |-> contentOr(fields, "VendorTaxId", <<>>)],
     invoice    |-> invoiceMetaOf(fields),
     line_items |-> extractLineItems_Debug(itemsOf(fields)),
     totals     |-> totalsOf(fields)]

transformAzureData_Hybrid(fields) ==
    [supplier   |-> [name    |-> contentOr(fields, "VendorName", S_UnknownSupplier),
                     address |-> contentOr(fields, "VendorAddress", <<>>),
                     abn     |-> contentOr(fields, "VendorTaxId", <<>>)],
     invoice    |-> invoiceMetaOf(fields),
     line_items |-> extractLineItems_Hybrid(itemsOf(fields)),
     totals     |-> totalsOf(fields)]

transformAzureInvoiceData(fields) ==
    [supplier   |-> [name    |-> contentOr(fields, "VendorName",
                                     contentOr(fields, "MerchantName", S_UnknownSupplier)),
                     address |-> contentOr(fields, "VendorAddress",
                                     contentOr(fields, "MerchantAddress", <<>>)),
                     abn     |-> contentOr(fields, "VendorTaxId", <<>>)],
     invoice    |-> invoiceMetaOf(fields),
     line_items |-> extractLineItemsFromAzure(itemsOf(fields)),
     totals     |-> totalsOf(fields),
     extraction_method |-> <<"A", "z", "u", "r", "e", " ", "I", "n", "v", "o", "i", "c", "e", " ", "M", "o", "d", "e", "l">>]

----------------------------------------------------------------------------
(* Placeholder invoices                                                    *)

S_ProcessingError ==
    <<"P", "r", "o", "c", "e", "s", "s", "i", "n", "g", " ", "E", "r", "r", "o", "r">>

S_UnableToProcess ==
    <<"U", "n", "a", "b", "l", "e", " ", "t", "o", " ", "p", "r", "o", "c", "e", "s", "s", " ">>

S_TryClearer ==
    <<" ", "-", " ", "t", "r", "y", " ", "a", " ", "c", "l", "e", "a", "r", "e", "r", " ", "i",
      "m", "a", "g", "e", " ", "o", "r", " ", "d", "i", "f", "f", "e", "r", "e", "n", "t", " ",
      "f", "o", "r", "m", "a", "t">>

S_UnableHybrid ==
    <<"U", "n", "a", "b", "l", "e", " ", "t", "o", " ", "p", "r", "o", "c", "e", "s", "s", " ",
      "i", "n", "v", "o", "i", "c", "e", " ", "-", " ", "c", "h", "e", "c", "k", " ", "f", "i",
      "l", "e", " ", "f", "o", "r", "m", "a", "t">>

S_NoReadableText ==
    <<"N", "o", " ", "r", "e", "a", "d", "a", "b", "l", "e", " ", "t", "e", "x", "t", " ", "f",
      "o", "u", "n", "d", " ", "i", "n", " ", "d", "o", "c", "u", "m", "e", "n", "t">>

zeroTotals == [subtotal_ex_gst |-> 0, gst_amount |-> 0, total_inc_gst |-> 0]

\* Debug version, lines 349-366
createMinimalFallback(f) ==
    [supplier   |-> [name |-> S_ProcessingError],
     invoice    |-> emptyInvoiceMeta,
     line_items |-> <<lineItem(1, <<>>, S_UnableToProcess \o f.filename \o S_TryClearer,
                               1, 0, 0, S_each)>>,
     totals     |-> zeroTotals]

\* Hybrid version, lines 857-868
createFallbackData_Hybrid(f) ==
    [supplier   |-> [name |-> S_ProcessingError],
     line_items |-> <<[description |-> S_UnableHybrid,
                       quantity    |-> 1,
                       unit_cost   |-> 0,
                       unit        |-> S_each]>>]

\* Azure-only version, lines 1271-1291
createFallbackData_AzureOnly(f, errorMessage) ==
    [supplier   |-> [name |-> S_ProcessingError],
     invoice    |-> emptyInvoiceMeta,
     line_items |-> <<lineItem(1, <<>>,
                               S_UnableToProcess \o f.filename \o <<" ", "-", " ">> \o errorMessage,
                               1, 0, 0, S_each)>>,
     totals     |-> zeroTotals,
     extraction_method |-> <<"E", "r", "r", "o", "r", " ", "F", "a", "l", "l", "b", "a", "c", "k">>]

----------------------------------------------------------------------------
(* Business rules                                                          *)

KeywordTable_Debug ==
    <<[category |-> "Organic",
       keywords |-> <<<<"o", "r", "g", "a", "n", "i", "c">>,
                      <<"b", "i", "o">>>>],
      [category |-> "Supplements",
       keywords |-> <<<<"v", "i", "t", "a", "m", "i", "n">>,
                      <<"s", "u", "p", "p", "l", "e", "m", "e", "n", "t">>>>],
      [category |-> "Bulk",
       keywords |-> <<<<"b", "u", "l", "k">>,
                      <<"2", "5", "k", "g">>,
                      <<"2", "0", "k", "g">>>>],
      [category |-> "Cosmetics",
       keywords |-> <<<<"c", "r", "e", "a", "m">>,
                      <<"o", "i", "l">>,
                      <<"s", "o", "a", "p">>>>]>>

KeywordTable_Hybrid ==
    <<[category |-> "organic",
       keywords |-> <<<<"o", "r", "g", "a", "n", "i", "c">>,
                      <<"b", "i", "o">>,
                      <<"c", "e", "r", "t", "i", "f", "i", "e", "d", " ", "o", "r", "g", "a", "n", "i", "c">>>>],
      [category |-> "supplements",
       keywords |-> <<<<"v", "i", "t", "a", "m", "i", "n">>,
                      <<"s", "u", "p", "p", "l", "e", "m", "e", "n", "t">>,
                      <<"m", "i", "n", "e", "r", "a", "l">>,
                      <<"p", "r", "o", "b", "i", "o", "t", "i", "c">>>>],
      [category |-> "bulk",
       keywords |-> <<<<"b", "u", "l", "k">>,
                      <<"2", "5", "k", "g">>,
                      <<"2", "0", "k", "g">>,
                      <<"w", "h", "o", "l", "e", "s", "a", "l", "e">>>>],
      [category |-> "cosmetics",
       keywords |-> <<<<"c", "r", "e", "a", "m">>,
                      <<"o", "i", "l">>,
                      <<"s", "o", "a", "p">>,
                      <<"s", "h", "a", "m", "p", "o", "o">>>>]>>

KeywordTable_AzureOnly ==
    <<[category |-> "Organic",
       keywords |-> <<<<"o", "r", "g", "a", "n", "i", "c">>,
                      <<"b", "i", "o">>,
                      <<"c", "e", "r", "t", "i", "f", "i", "e", "d">>>>],
      [category |-> "Supplements",
       keywords |-> <<<<"v", "i", "t", "a", "m", "i", "n">>,
                      <<"s", "u", "p", "p", "l", "e", "m", "e", "n", "t">>,
                      <<"m", "i", "n", "e", "r", "a", "l">>,
                      <<"p", "r", "o", "b", "i", "o", "t", "i", "c">>,
                      <<"c", "a", "p", "s", "u", "l", "e">>,
                      <<"t", "a", "b", "l", "e", "t">>>>],
      [category |-> "Bulk",
       keywords |-> <<<<"b", "u", "l", "k">>,
                      <<"2", "5", "k", "g">>,
                      <<"2", "0", "k", "g">>,
                      <<"w", "h", "o", "l", "e", "s", "a", "l", "e">>,
                      <<"s", "a", "c", "k">>,
                      <<"b", "a", "g">>>>],
      [category |-> "Cosmetics",
       keywords |-> <<<<"c", "r", "e", "a", "m">>,
                      <<"o", "i", "l">>,
                      <<"s", "o", "a", "p">>,
                      <<"s", "h", "a", "m", "p", "o", "o">>,
                      <<"l", "o", "t", "i", "o", "n">>,
                      <<"b", "a", "l", "m">>>>]>>

\* firstMatch had the rules been tried to the end, the last match winning
firstMatch_lastWins(table, description, default) ==
    LET desc == toLowerCase(description)
        hits == {i \in 1..Len(table) :
                    \E k \in 1..Len(table[i].keywords) : includes(desc, table[i].keywords[k])}
    IN  IF description = <<>> \/ hits = {} THEN default ELSE table[Max(hits)].category

\* the first category of the table one of whose keywords the lower-cased
\* description includes, else the default
firstMatch(table, description, default) ==
    LET desc == toLowerCase(description)
        hits == {i \in 1..Len(table) :
                    \E k \in 1..Len(table[i].keywords) : includes(desc, table[i].keywords[k])}
    IN  IF description = <<>> \/ hits = {} THEN default ELSE table[Min(hits)].category

categorizeProduct_Debug(description) == firstMatch(KeywordTable_Debug, description, "Groceries")

categorizeProduct_Hybrid(description) ==
    firstMatch(KeywordTable_Hybrid, description, "groceries")

categorizeProduct_AzureOnly(description) ==
    firstMatch(KeywordTable_AzureOnly, description, "Groceries")

\* markups as percentages (0.45 is 45)
Markups ==
    [Organic |-> 45, Supplements |-> 50, Bulk |-> 35, Cosmetics |-> 55, Groceries |-> 40]

Markups_Hybrid ==
    [organic |-> 45, supplements |-> 50, bulk |-> 35, cosmetics |-> 55, groceries |-> 40]

\* markups[category] || 0.40
getMarkupForCategory(category) ==
    IF category \in DOMAIN Markups THEN Markups[category] ELSE 40

\* item.f, or the empty string when the item has no such property
stringOf(item, f) == IF f \in DOMAIN item THEN item[f] ELSE <<>>

\* { ...obj, ...changes }
spread(obj, changes) == changes @@ obj

\* the map callback of lines 441-452
enhance_Debug(item) ==
    LET category      == categorizeProduct_Debug(item.description)
        markupPercent == getMarkupForCategory(category)
    IN  spread(item, [category    |-> category,
                      markup      |-> 100 + markupPercent,
                      retailPrice |-> percent(item.unit_cost, 100 + markupPercent)])

applyFallbackLogic_Debug(data) ==
    spread(data, [line_items |-> [i \in 1..Len(data.line_items) |->
                                     enhance_Debug(data.line_items[i])]])

\* the map callback of lines 789-802
enhance_Hybrid(item) ==
    LET category      == categorizeProduct_Hybrid(item.description)
        markupPercent == IF category \in DOMAIN Markups_Hybrid
                         THEN Markups_Hybrid[category] ELSE 40
    IN  spread(item, [category    |-> category,
                      markup      |-> 100 + markupPercent,
                      retailPrice |-> percent(item.unit_cost, 100 + markupPercent),
                      suggested_markup_percent |-> markupPercent,
                      review_required |-> Len(stringOf(item, "product_code")) < 3])

applyFallbackLogic_Hybrid(data) ==
    spread(data, [line_items |-> [i \in 1..Len(data.line_items) |->
                                     enhance_Hybrid(data.line_items[i])],
                  processing_notes |->
                      <<<<"Data extracted with Azure Document Intelligence">>,
                        <<"Fallback business logic applied">>,
                        <<"Consider checking Abacus.ai connection">>>>])

\* the map callback of lines 1296-1326
enhance_AzureOnly(item) ==
    LET category      == categorizeProduct_AzureOnly(item.description)
        markupPercent == Markups[category]
        retailPriceExGst == percent(item.unit_cost, 100 + markupPercent)
        noCode == Len(item.product_code) < 2
    IN  spread(item, [category    |-> category,
                      markup      |-> 100 + markupPercent,
                      retailPrice |-> percent(retailPriceExGst, 110),
                      suggested_markup_percent |-> markupPercent,
                      review_required |-> noCode \/ item.unit_cost = 0,
                      notes |-> (IF noCode THEN <<"Missing product code">> ELSE <<>>)
                                \o (IF item.unit_cost = 0
                                    THEN <<"No unit cost detected">> ELSE <<>>)
                                \o (IF Len(item.description) < 5
                                    THEN <<"Description unclear">> ELSE <<>>)])

needsReview(item) == "review_required" \in DOMAIN item /\ item.review_required

applyBusinessRules(data) ==
    LET enhancedLineItems == [i \in 1..Len(data.line_items) |->
                                 enhance_AzureOnly(data.line_items[i])]
    IN  spread(data, [line_items |-> enhancedLineItems,
                      processing_notes |->
                          <<<<"Data extracted with Azure Document Intelligence",
                              data.extraction_method>>,
                            <<"Wild Octave Organics business rules applied">>,
                            <<Len(enhancedLineItems), "items processed">>,
                            <<Len(SelectSeq(enhancedLineItems, needsReview)),
                              "items flagged for review">>>>])

----------------------------------------------------------------------------
(* Response formatter                                                      *)

\* item.f || d for a numeric property
valueOr(item, f, d) == IF f \in DOMAIN item /\ item[f] # 0 THEN item[f] ELSE d

\* formatItem had it written the default category and markup on every item
formatItem_defaultsAlways(item) ==
    [product     |-> item.description,
     quantity    |-> item.quantity,
     unit        |-> IF stringOf(item, "unit") = <<>> THEN S_each ELSE item.unit,
     costExGST   |-> item.unit_cost,
     category    |-> "Groceries",
     markup      |-> 165,
     retailPrice |-> valueOr(item, "retailPrice", percent(item.unit_cost, 165))]

\* the map callback of lines 485-493, 835-843 and 1375-1383
formatItem(item) ==
    [product     |-> item.description,
     quantity    |-> item.quantity,
     unit        |-> IF stringOf(item, "unit") = <<>> THEN S_each ELSE item.unit,
     costExGST   |-> item.unit_cost,
     category    |-> IF "category" \in DOMAIN item /\ item.category # ""
                     THEN item.category ELSE "Groceries",
     markup      |-> valueOr(item, "markup", 165),
     retailPrice |-> valueOr(item, "retailPrice",
                             percent(item.unit_cost, valueOr(item, "markup", 165)))]

\* enhancedData.supplier?.name || 'Unknown Supplier'
supplierNameOf(data) ==
    IF "supplier" \in DOMAIN data /\ stringOf(data.supplier, "name") # <<>>
    THEN data.supplier.name ELSE S_UnknownSupplier

\* enhancedData.processing_notes || [d]
notesOf(data, d) ==
    IF "processing_notes" \in DOMAIN data THEN data.processing_notes ELSE <<<<d>>>>

\* Each formatter is [threw |-> TRUE, message] when enhancedData has no
\* line_items to map (a TypeError), else [threw |-> FALSE, value].
S_TypeError == "Cannot read properties of undefined (reading 'map')"

formatForUI_Debug(data) ==
    IF "line_items" \notin DOMAIN data THEN [threw |-> TRUE, message |-> S_TypeError]
    ELSE LET items == [i \in 1..Len(data.line_items) |-> formatItem(data.line_items[i])]
         IN  [threw |-> FALSE,
              value |-> [supplier        |-> supplierNameOf(data),
                         items           |-> items,
                         processingNotes |-> notesOf(data, "Processed with hybrid system"),
                         summary |-> [totalItems  |-> Len(items),
                                      totalCost   |-> sum(pluck(items, "costExGST")),
                                      totalRetail |-> sum(pluck(items, "retailPrice"))]]]

formatForUI_Hybrid(data) ==
    IF "line_items" \notin DOMAIN data THEN [threw |-> TRUE, message |-> S_TypeError]
    ELSE LET items == [i \in 1..Len(data.line_items) |-> formatItem(data.line_items[i])]
         IN  [threw |-> FALSE,
              value |-> [supplier        |-> supplierNameOf(data),
                         items           |-> items,
                         processingNotes |->
                             notesOf(data, "Processed with hybrid Azure + Abacus.ai"),
                         summary |-> [totalItems  |-> Len(items),
                                      totalCost   |-> sum(pluck(items, "costExGST")),
                                      totalRetail |-> sum(pluck(items, "retailPrice"))]]]

formatForUI_AzureOnly(data) ==
    IF "line_items" \notin DOMAIN data THEN [threw |-> TRUE, message |-> S_TypeError]
    ELSE LET items == [i \in 1..Len(data.line_items) |-> formatItem(data.line_items[i])]
             review == SelectSeq(data.line_items, needsReview)
         IN  [threw |-> FALSE,
              value |-> [supplier        |-> supplierNameOf(data),
                         items           |-> items,
                         processingNotes |->
                             notesOf(data, "Processed with Azure Document Intelligence"),
                         summary |-> [totalItems  |-> Len(items),
                                      totalCost   |-> sum([i \in 1..Len(items) |->
                                          items[i].costExGST * items[i].quantity]),
                                      totalRetail |-> sum([i \in 1..Len(items) |->
                                          items[i].retailPrice * items[i].quantity]),
                                      itemsNeedingReview |-> Len(review)],
                         extractionMethod |-> stringOf(data, "extraction_method"),
                         reviewItems      |-> review]]

----------------------------------------------------------------------------
(* The environment: deployments, requests and backend replies              *)

Variants == {"Debug", "Hybrid", "AzureOnly"}

\* which of the environment variables read at lines 7-8 and 13 are set
Envs == [azureEndpoint : BOOLEAN, azureKey : BOOLEAN, abacusKey : BOOLEAN]

Methods == {"OPTIONS", "POST", "GET"}

ContentType_Multipart ==
    <<"m", "u", "l", "t", "i", "p", "a", "r", "t", "/", "f", "o", "r", "m", "-", "d", "a", "t",
      "a", ";", " ", "b", "o", "u", "n", "d", "a", "r", "y", "=", "X">>

ContentType_NoBoundary ==
    <<"m", "u", "l", "t", "i", "p", "a", "r", "t", "/", "f", "o", "r", "m", "-", "d", "a", "t",
      "a">>

Body_FileAndProvider ==
    <<"-", "-", "X", "CR", "LF", "C", "o", "n", "t", "e", "n", "t", "-", "D", "i", "s", "p",
      "o", "s", "i", "t", "i", "o", "n", ":", " ", "f", "o", "r", "m", "-", "d", "a", "t", "a",
      ";", " ", "n", "a", "m", "e", "=", "dq", "f", "i", "l", "e", "dq", ";", " ", "f", "i",
      "l", "e", "n", "a", "m", "e", "=", "dq", "a", ".", "p", "d", "f", "dq", "CR", "LF", "C",
      "o", "n", "t", "e", "n", "t", "-", "T", "y", "p", "e", ":", " ", "a", "p", "p", "l", "i",
      "c", "a", "t", "i", "o", "n", "/", "p", "d", "f", "CR", "LF", "CR", "LF", "%", "P", "D",
      "F", "CR", "LF", "-", "-", "X", "CR", "LF", "C", "o", "n", "t", "e", "n", "t", "-", "D",
      "i", "s", "p", "o", "s", "i", "t", "i", "o", "n", ":", " ", "f", "o", "r", "m", "-", "d",
      "a", "t", "a", ";", " ", "n", "a", "m", "e", "=", "dq", "p", "r", "o", "v", "i", "d",
      "e", "r", "dq", "CR", "LF", "CR", "LF", "a", "z", "u", "r", "e", "CR", "LF", "-", "-",
      "X", "-", "-", "CR", "LF">>

Body_ProviderOnly ==
    <<"-", "-", "X", "CR", "LF", "C", "o", "n", "t", "e", "n", "t", "-", "D", "i", "s", "p",
      "o", "s", "i", "t", "i", "o", "n", ":", " ", "f", "o", "r", "m", "-", "d", "a", "t", "a",
      ";", " ", "n", "a", "m", "e", "=", "dq", "p", "r", "o", "v", "i", "d", "e", "r", "dq",
      "CR", "LF", "CR", "LF", "a", "z", "u", "r", "e", "CR", "LF", "-", "-", "X", "-", "-",
      "CR", "LF">>

Body_FileNoFilename ==
    <<"-", "-", "X", "CR", "LF", "C", "o", "n", "t", "e", "n", "t", "-", "D", "i", "s", "p",
      "o", "s", "i", "t", "i", "o", "n", ":", " ", "f", "o", "r", "m", "-", "d", "a", "t", "a",
      ";", " ", "n", "a", "m", "e", "=", "dq", "f", "i", "l", "e", "dq", "CR", "LF", "CR",
      "LF", "B", "M", "CR", "LF", "-", "-", "X", "-", "-", "CR", "LF">>

\* the upload of Body_FileAndProvider with another provider chosen in the UI
Body_FileMindee ==
    <<"-", "-", "X", "CR", "LF", "C", "o", "n", "t", "e", "n", "t", "-", "D", "i", "s", "p",
      "o", "s", "i", "t", "i", "o", "n", ":", " ", "f", "o", "r", "m", "-", "d", "a", "t", "a",
      ";", " ", "n", "a", "m", "e", "=", "dq", "f", "i", "l", "e", "dq", ";", " ", "f", "i",
      "l", "e", "n", "a", "m", "e", "=", "dq", "a", ".", "p", "d", "f", "dq", "CR", "LF", "C",
      "o", "n", "t", "e", "n", "t", "-", "T", "y", "p", "e", ":", " ", "a", "p", "p", "l", "i",
      "c", "a", "t", "i", "o", "n", "/", "p", "d", "f", "CR", "LF", "CR", "LF", "%", "P", "D",
      "F", "CR", "LF", "-", "-", "X", "CR", "LF", "C", "o", "n", "t", "e", "n", "t", "-", "D",
      "i", "s", "p", "o", "s", "i", "t", "i", "o", "n", ":", " ", "f", "o", "r", "m", "-", "d",
      "a", "t", "a", ";", " ", "n", "a", "m", "e", "=", "dq", "p", "r", "o", "v", "i", "d",
      "e", "r", "dq", "CR", "LF", "CR", "LF", "m", "i", "n", "d", "e", "e", "CR", "LF", "-",
      "-", "X", "-", "-", "CR", "LF">>

\* The body the browser sends for the FormData of index.html lines 98-100, with
\* the boundary X: a part `file` (a.pdf, application/pdf) of content `data`,
\* then a part `provider` of content `provider`.
encodeForm(data, provider) ==
    <<"-", "-", "X", "CR", "LF", "C", "o", "n", "t", "e", "n", "t", "-", "D", "i", "s", "p",
      "o", "s", "i", "t", "i", "o", "n", ":", " ", "f", "o", "r", "m", "-", "d", "a", "t", "a",
      ";", " ", "n", "a", "m", "e", "=", "dq", "f", "i", "l", "e", "dq", ";", " ", "f", "i",
      "l", "e", "n", "a", "m", "e", "=", "dq", "a", ".", "p", "d", "f", "dq", "CR", "LF", "C",
      "o", "n", "t", "e", "n", "t", "-", "T", "y", "p", "e", ":", " ", "a", "p", "p", "l", "i",
      "c", "a", "t", "i", "o", "n", "/", "p", "d", "f", "CR", "LF", "CR", "LF">>
    \o data
    \o <<"CR", "LF", "-", "-", "X", "CR", "LF", "C", "o", "n", "t", "e", "n", "t", "-", "D",
       "i", "s", "p", "o", "s", "i", "t", "i", "o", "n", ":", " ", "f", "o", "r", "m", "-",
       "d", "a", "t", "a", ";", " ", "n", "a", "m", "e", "=", "dq", "p", "r", "o", "v", "i",
       "d", "e", "r", "dq", "CR", "LF", "CR", "LF">>
    \o provider
    \o <<"CR", "LF", "-", "-", "X", "-", "-", "CR", "LF">>

\* event.headers: with a boundary, without one, without a content-type
HeaderChoices ==
    {("content-type" :> ContentType_Multipart), ("content-type" :> ContentType_NoBoundary), <<>>}

Bodies == {Body_FileAndProvider, Body_FileMindee, Body_ProviderOnly, Body_FileNoFilename}

Events == [httpMethod : Methods, headers : HeaderChoices, body : Bodies]

S_ServiceUnavailable ==
    <<"S", "e", "r", "v", "i", "c", "e", " ", "u", "n", "a", "v", "a", "i", "l", "a", "b", "l",
      "e">>

S_ABCOrganics ==
    <<"A", "B", "C", " ", "O", "r", "g", "a", "n", "i", "c", "s">>

\* the most items a structured document carries
MaxItems == 2

\* the items a structured document may carry: one with every field, one with a
\* full product code and no price, one with a price and no product code, one
\* with no field at all, one of a credit note (a returned unit)
ItemPool ==
    <<[Description |-> <<"O", "r", "g", "a", "n", "i", "c", " ", "V", "i", "t", "a", "m", "i", "n", " ", "C">>,
       Quantity |-> 2, UnitPrice |-> 10 * Scale, Amount |-> 20 * Scale,
       ProductCode |-> <<"O", "V", "C", "1">>, Unit |-> <<"k", "g">>],
      [Description |-> <<"O", "l", "i", "v", "e", " ", "O", "i", "l">>, UnitPrice |-> 0,
       ProductCode |-> <<"O", "O", "1", "2">>],
      [Description |-> <<"B", "r", "o", "w", "n", " ", "R", "i", "c", "e">>,
       UnitPrice |-> 10 * Scale],
      <<>>,
      [Description |-> <<"R", "e", "t", "u", "r", "n", "e", "d", " ", "j", "a", "r">>,
       Quantity |-> 0 - 1, UnitPrice |-> 4 * Scale]>>

\* the valueArray of n items that starts at the item `first` of the pool
azureItems(first, n) == [i \in 1..n |-> ItemPool[((first + i - 2) % Len(ItemPool)) + 1]]

\* what the prebuilt-invoice model may answer: an error, a result with no
\* documents (absent or empty), a document without Items or with an empty
\* Items array, documents with items
InvoiceReplies ==
    {[threw |-> TRUE, message |-> S_ServiceUnavailable],
     [threw |-> FALSE],
     [threw |-> FALSE, documents |-> <<>>],
     [threw |-> FALSE, documents |-> <<[VendorName |-> S_ABCOrganics]>>],
     [threw |-> FALSE, documents |-> <<[VendorName |-> S_ABCOrganics, Items |-> <<>>]>>]}
    \union {[threw |-> FALSE,
             documents |-> <<[VendorName |-> S_ABCOrganics, Items |-> azureItems(first, n)]>>]
            : first \in 1..Len(ItemPool), n \in 1..MaxItems}

Text_Short ==
    <<"T", "e", "a", " ", "$", "4", ".", "0", "0">>

Text_Medium ==
    <<"G", "r", "e", "e", "n", " ", "T", "e", "a", " ", "$", "4", ".", "5", "0">>

Text_Items ==
    <<"A", "B", "C", " ", "O", "r", "g", "a", "n", "i", "c", "s", " ", "P", "t", "y", " ", "L",
      "t", "d", "LF", "I", "n", "v", "o", "i", "c", "e", " ", "#", "1", "2", "3", "LF", "A",
      "p", "p", "l", "e", "s", " ", "$", "5", ".", "0", "0", "LF", "3", " ", "x", " ", "P",
      "e", "a", "r", "s", " ", "$", "1", "5", ".", "0", "0">>

Text_NoPrices ==
    <<"W", "i", "l", "d", " ", "O", "c", "t", "a", "v", "e", " ", "O", "r", "g", "a", "n", "i",
      "c", "s", "LF", "t", "h", "a", "n", "k", " ", "y", "o", "u", " ", "f", "o", "r", " ",
      "s", "h", "o", "p", "p", "i", "n", "g">>

\* a text whose first line names a supplier with a tax word in its name
Text_GstFirst ==
    <<"G", "S", "T", " ", "F", "r", "e", "e", " ", "F", "o", "o", "d", "s", "LF", "A", "p",
      "p", "l", "e", "s", " ", "$", "5", ".", "0", "0">>

\* a text that opens with a date line and whose prices are all below a dollar
Text_Dated ==
    <<"D", "a", "t", "e", ":", " ", "0", "1", "/", "0", "1", "/", "2", "0", "2", "4", "LF",
      "A", "B", "C", " ", "O", "r", "g", "a", "n", "i", "c", "s", " ", "P", "t", "y", " ", "L",
      "t", "d", "LF", "M", "i", "n", "t", "s", " ", "$", "0", ".", "8", "0", "LF", "G", "u",
      "m", " ", "$", "0", ".", "2", "0">>

\* a text whose only line that may name a supplier is its eleventh
Text_Long ==
    <<"T", "o", "t", "a", "l", "LF", "T", "o", "t", "a", "l", "LF", "T", "o", "t", "a", "l",
      "LF", "T", "o", "t", "a", "l", "LF", "T", "o", "t", "a", "l", "LF", "T", "o", "t", "a",
      "l", "LF", "T", "o", "t", "a", "l", "LF", "T", "o", "t", "a", "l", "LF", "T", "o", "t",
      "a", "l", "LF", "T", "o", "t", "a", "l", "LF", "W", "i", "l", "d", " ", "O", "c", "t",
      "a", "v", "e">>

\* a text with prices on both sides of the accepted range
Text_Prices ==
    <<"W", "i", "l", "d", " ", "O", "c", "t", "a", "v", "e", "LF", "M", "i", "n", "t", "s",
      " ", "$", "0", ".", "8", "0", "LF", "G", "u", "m", " ", "$", "0", ".", "2", "0", "LF",
      "B", "a", "g", " ", "$", "1", ".", "0", "0", "LF", "B", "o", "x", " ", "$", "1", "0",
      "0", "0", "0", ".", "0", "0", "LF", "A", "p", "p", "l", "e", "s", " ", "$", "5", ".",
      "0", "0">>

\* what the prebuilt-read model may answer: an error or a content string
ReadReplies ==
    {[threw |-> TRUE, message |-> S_ServiceUnavailable]}
    \union {[threw |-> FALSE, content |-> t]
            : t \in {<<>>, Text_Short, Text_Medium, Text_Items, Text_NoPrices,
                      Text_GstFirst, Text_Dated, Text_Long, Text_Prices}}

\* what the endpoint lookup of lines 372-380 may answer
EndpointReplies ==
    {[threw |-> TRUE], [threw |-> FALSE, success |-> FALSE, result |-> TRUE],
     [threw |-> FALSE, success |-> TRUE, result |-> FALSE],
     [threw |-> FALSE, success |-> TRUE, result |-> TRUE]}

\* an invoice as the enhancement service may return it for `data`: the items
\* with the service's own category and markup
remoteEnhanced(data) ==
    spread(data, [line_items |-> [i \in 1..Len(data.line_items) |->
                     spread(data.line_items[i],
                            [category    |-> "Supplements",
                             markup      |-> 150,
                             retailPrice |-> percent(data.line_items[i].unit_cost, 165)])],
                  processing_notes |-> <<<<"Enhanced by Abacus.ai">>>>])

\* the JSON values the enhancement service may send for `data`: invoices (the
\* data echoed, enhanced, or with no items) and an object that is no invoice
RemoteValues(data) ==
    {data, remoteEnhanced(data), [line_items |-> <<>>], [error |-> "model not deployed"]}

\* a JSON text: one that does not parse, or the text of a value
JsonTexts(data) ==
    {[parses |-> FALSE]} \union {[parses |-> TRUE, value |-> v] : v \in RemoteValues(data)}

\* what the prediction call may answer: a rejection (network error or a
\* non-2xx status), or a 2xx reply whose data carries `result` (a JSON text or
\* an object), `response` (a JSON text) or neither
PredictionReplies(data) ==
    {[threw |-> TRUE, why |-> w] : w \in {"networkError", "nonSuccess"}}
    \union {[threw |-> FALSE, field |-> "none"]}
    \union {[threw |-> FALSE, field |-> f, text |-> t]
            : f \in {"result", "response"}, t \in JsonTexts(data)}
    \union {[threw |-> FALSE, field |-> "result", object |-> v] : v \in RemoteValues(data)}

\* the timeout option of the prediction call, in milliseconds
AbacusTimeout == 30000

NoCall == [call |-> "none", timeout |-> 0]

NoEvent == [httpMethod |-> "none", headers |-> <<>>, body |-> <<>>]

\* no OCR model has replied yet
NoReply == [threw |-> FALSE, call |-> "none"]

\* the locals of an invocation that has not started
NoInvocation ==
    [pc |-> "idle", event |-> NoEvent, file |-> <<>>, azureData |-> <<>>,
     enhancedData |-> <<>>, abacusOutcome |-> "none", pending |-> NoCall,
     calls |-> [invoice |-> 0, read |-> 0, endpoint |-> 0, prediction |-> 0],
     log |-> <<>>, responses |-> <<>>, ocrReply |-> NoReply]

----------------------------------------------------------------------------
(* The handler                                                             *)

azureConfigured == env.azureEndpoint /\ env.azureKey

\* ABACUS_CONFIG.apiKey is truthy: the Debug version falls back to a literal key
abacusConfigured == variant = "Debug" \/ env.abacusKey

setOrMissing(b) == IF b THEN "SET" ELSE "MISSING"

\* the body of the 500 of lines 51-61 and 971-981
credentialsBody ==
    [error |-> "Azure Document Intelligence credentials not configured",
     debug |-> [endpoint |-> setOrMissing(env.azureEndpoint),
                key      |-> setOrMissing(env.azureKey)]]

\* caughtBody had the catch sent the message alone
caughtBody_messageOnly(message) == [error |-> message]

\* the body the top-level catch builds for an error with this message
caughtBody(message) ==
    CASE variant = "Debug" ->
            [error   |-> message,
             details |-> "Check function logs for more information",
             debug   |-> [azureConfigured  |-> azureConfigured,
                          abacusConfigured |-> abacusConfigured]]
      [] variant = "Hybrid" ->
            [error   |-> message,
             details |-> "Check function logs for more information"]
      [] variant = "AzureOnly" ->
            [error     |-> message,
             details   |-> "Check function logs for more information",
             timestamp |-> "now"]

\* return { statusCode, headers, body }: the handler's only way out
Return(status, body, steps) ==
    /\ responses' = Append(responses, [statusCode |-> status, body |-> body])
    /\ log' = log \o steps \o <<"respond">>
    /\ pc' = "done"
    /\ pending' = NoCall

\* await of a backend call
Await(call, site, timeout, steps, next) ==
    /\ pending' = [call |-> call, site |-> site, timeout |-> timeout]
    /\ calls' = [calls EXCEPT ![call] = @ + 1]
    /\ log' = log \o steps \o <<call>>
    /\ pc' = next

\* no reply of a fetch yet
NoFetch == [rejected |-> FALSE, status |-> 0, json |-> FALSE]

\* the useState initial values of index.html lines 18-24; `fetching` is the
\* position of processInvoice (it awaits the reply of its fetch) and `fetched`
\* the reply it received last
UIStart ==
    [currentStep      |-> 1,
     invoiceFile      |-> <<>>,
     ocrProvider      |-> <<"g", "o", "o", "g", "l", "e", "-", "v", "i", "s", "i", "o", "n">>,
     extractedItems   |-> <<>>,
     supplierName     |-> <<>>,
     processingStatus |-> <<>>,
     isProcessing     |-> FALSE,
     fetching         |-> FALSE,
     fetched          |-> NoFetch]

Init ==
    /\ variant \in Variants
    /\ env \in Envs
    /\ pc = "idle"
    /\ event = NoEvent
    /\ file = <<>>
    /\ azureData = <<>>
    /\ enhancedData = <<>>
    /\ abacusOutcome = "none"
    /\ pending = NoCall
    /\ calls = [invoice |-> 0, read |-> 0, endpoint |-> 0, prediction |-> 0]
    /\ log = <<>>
    /\ responses = <<>>
    /\ ocrReply = NoReply
    /\ parked = NoInvocation
    /\ ui = UIStart

\* an invocation of the handler begins: the locals of the last one are gone
Invoke(e) ==
    /\ pc \in {"idle", "done"}
    /\ event' = e
    /\ pc' = "entered"
    /\ file' = <<>>
    /\ azureData' = <<>>
    /\ enhancedData' = <<>>
    /\ abacusOutcome' = "none"
    /\ pending' = NoCall
    /\ calls' = [invoice |-> 0, read |-> 0, endpoint |-> 0, prediction |-> 0]
    /\ log' = <<>>
    /\ responses' = <<>>
    /\ ocrReply' = NoReply
    /\ UNCHANGED <<variant, env, parked>>

\* the platform invokes the handler with an event
Receive(e) == Invoke(e) /\ UNCHANGED ui

\* lines 26-28, 604-606, 953-955
Preflight ==
    /\ pc = "entered"
    /\ event.httpMethod = "OPTIONS"
    /\ Return(200, <<>>, <<"method">>)
    /\ UNCHANGED <<ui, variant, env, parked, ocrReply, event, file, azureData, enhancedData, abacusOutcome, calls>>

\* lines 30-36, 608-614, 957-963
MethodNotAllowed ==
    /\ pc = "entered"
    /\ event.httpMethod \notin {"OPTIONS", "POST"}
    /\ Return(405, [error |-> "Method Not Allowed"], <<"method">>)
    /\ UNCHANGED <<ui, variant, env, parked, ocrReply, event, file, azureData, enhancedData, abacusOutcome, calls>>

\* AcceptPost had the handler not checked the method of a request that is no
\* preflight
AcceptPost_anyMethod ==
    /\ pc = "entered"
    /\ event.httpMethod # "OPTIONS"
    /\ pc' = "credentials"
    /\ log' = log \o <<"method">>
    /\ UNCHANGED <<ui, variant, env, parked, ocrReply, event, file, azureData, enhancedData, abacusOutcome,
                   pending, calls, responses>>

\* a POST enters the try block
AcceptPost ==
    /\ pc = "entered"
    /\ event.httpMethod = "POST"
    /\ pc' = "credentials"
    /\ log' = log \o <<"method">>
    /\ UNCHANGED <<ui, variant, env, parked, ocrReply, event, file, azureData, enhancedData, abacusOutcome,
                   pending, calls, responses>>

\* CheckCredentials had the handler not validated its environment
CheckCredentials_unchecked ==
    /\ pc = "credentials"
    /\ pc' = "decode"
    /\ log' = log \o <<"credentials">>
    /\ UNCHANGED <<ui, variant, env, parked, ocrReply, event, file, azureData, enhancedData, abacusOutcome,
                   pending, calls, responses>>

\* lines 48-62 (Debug), 619-626 (Hybrid), 968-982 (Azure-only)
CheckCredentials ==
    /\ pc = "credentials"
    /\ IF ~azureConfigured
       THEN IF variant = "Hybrid"
            THEN Return(500, caughtBody("Azure Document Intelligence credentials not configured"),
                        <<"credentials">>)
            ELSE Return(500, credentialsBody, <<"credentials">>)
       ELSE IF variant = "Hybrid" /\ ~abacusConfigured
       THEN Return(500, caughtBody("Abacus.ai API key not configured"), <<"credentials">>)
       ELSE /\ pc' = "decode"
            /\ log' = log \o <<"credentials">>
            /\ UNCHANGED <<pending, responses>>
    /\ UNCHANGED <<ui, variant, env, parked, ocrReply, event, file, azureData, enhancedData, abacusOutcome, calls>>

\* DecodeUpload had the handler gone on to extraction without a file part
DecodeUpload_withoutFile ==
    /\ pc = "decode"
    /\ \E parsed \in {parseMultipartForm(event.body, event.headers)} :
          IF parsed.threw
          THEN Return(500, caughtBody(parsed.message), <<"decode">>) /\ file' = file
          ELSE /\ file' = IF S_file \in DOMAIN parsed.parts THEN parsed.parts[S_file] ELSE file
               /\ pc' = "extract"
               /\ log' = log \o <<"decode">>
               /\ UNCHANGED <<pending, responses>>
    /\ UNCHANGED <<ui, variant, env, parked, ocrReply, event, azureData, enhancedData, abacusOutcome, calls>>

\* DecodeUpload had the handler answered a missing file as a bad request
DecodeUpload_badRequest ==
    /\ pc = "decode"
    /\ \E parsed \in {parseMultipartForm(event.body, event.headers)} :
          IF parsed.threw
          THEN Return(500, caughtBody(parsed.message), <<"decode">>) /\ file' = file
          ELSE IF S_file \notin DOMAIN parsed.parts
          THEN Return(400, [error |-> "No file uploaded"], <<"decode">>) /\ file' = file
          ELSE /\ file' = parsed.parts[S_file]
               /\ pc' = "extract"
               /\ log' = log \o <<"decode">>
               /\ UNCHANGED <<pending, responses>>
    /\ UNCHANGED <<ui, variant, env, parked, ocrReply, event, azureData, enhancedData, abacusOutcome, calls>>

\* lines 64-71, 628-635, 984-991
DecodeUpload ==
    /\ pc = "decode"
    /\ \E parsed \in {parseMultipartForm(event.body, event.headers)} :
          IF parsed.threw
          THEN Return(500, caughtBody(parsed.message), <<"decode">>) /\ file' = file
          ELSE IF S_file \notin DOMAIN parsed.parts
          THEN Return(500, caughtBody("No file uploaded"), <<"decode">>) /\ file' = file
          ELSE /\ file' = parsed.parts[S_file]
               /\ pc' = "extract"
               /\ log' = log \o <<"decode">>
               /\ UNCHANGED <<pending, responses>>
    /\ UNCHANGED <<ui, variant, env, parked, ocrReply, event, azureData, enhancedData, abacusOutcome, calls>>

\* extractWithAzure up to its first await: lines 157-163, 683-689, 1046-1048
BeginExtract ==
    /\ pc = "extract"
    /\ Await("invoice", "extractWithAzure", 0, <<"extract">>, "awaitInvoice")
    /\ UNCHANGED <<ui, variant, env, parked, ocrReply, event, file, azureData, enhancedData, abacusOutcome,
                   responses>>

hasDocuments(r) == ~r.threw /\ "documents" \in DOMAIN r /\ Len(r.documents) > 0

\* what an OCR call came back with: it threw, it carried nothing (no document,
\* empty content), or it carried data
replyKind(r) ==
    IF r.threw THEN "threw"
    ELSE IF hasDocuments(r) \/ ("content" \in DOMAIN r /\ r.content # <<>>) THEN "data"
    ELSE "empty"

\* extraction returned `data` to the handler after the reply r
Extracted(r, data) ==
    /\ azureData' = data
    /\ pc' = "enhance"
    /\ pending' = NoCall
    /\ log' = log \o <<replyKind(r), "extracted">>
    /\ UNCHANGED calls

\* the prebuilt-invoice call settles: lines 166-194 and 77-85 (Debug),
\* 692-705 (Hybrid), 1050-1063 (Azure-only)
InvoiceReply(r) ==
    /\ pc = "awaitInvoice"
    /\ CASE variant = "Debug" ->
               IF hasDocuments(r) THEN Extracted(r, transformAzureData_Debug(r.documents[1]))
               ELSE /\ Await("read", IF r.threw THEN "tryBasicOCR" ELSE "extractWithAzure", 0,
                             <<replyKind(r)>>, "awaitRead")
                    /\ UNCHANGED azureData
         [] variant = "Hybrid" ->
               IF hasDocuments(r) THEN Extracted(r, transformAzureData_Hybrid(r.documents[1]))
               ELSE Extracted(r, createFallbackData_Hybrid(file))
         [] variant = "AzureOnly" ->
               IF hasDocuments(r) THEN Extracted(r, transformAzureInvoiceData(r.documents[1]))
               ELSE /\ Await("read", "extractWithAzure", 0, <<replyKind(r)>>, "awaitRead")
                    /\ UNCHANGED azureData
    /\ ocrReply' = r
    /\ UNCHANGED <<ui, variant, env, parked, event, file, enhancedData, abacusOutcome, responses>>

\* ReadReply had tryBasicOCR called the read model again when it fails
ReadReply_retries(r) ==
    /\ pc = "awaitRead"
    /\ CASE variant = "Debug" ->
               IF ~r.threw /\ Len(r.content) > 10
               THEN Extracted(r, parseTextToInvoiceData_Debug(r.content))
               ELSE /\ Await("read", "tryBasicOCR", 0, <<replyKind(r)>>, "awaitRead")
                    /\ UNCHANGED azureData
         [] variant = "AzureOnly" ->
               IF ~r.threw /\ Len(r.content) > 20
               THEN Extracted(r, parseTextToInvoiceData_AzureOnly(r.content))
               ELSE Extracted(r, createFallbackData_AzureOnly(file,
                        IF r.threw THEN r.message ELSE S_NoReadableText))
    /\ ocrReply' = r
    /\ UNCHANGED <<ui, variant, env, parked, event, file, enhancedData, abacusOutcome, responses>>

\* a prebuilt-read call settles: lines 178-186 and 81-85, then 210-222 (Debug),
\* 1064-1077 (Azure-only)
ReadReply(r) ==
    /\ pc = "awaitRead"
    /\ CASE variant = "Debug" /\ pending.site = "extractWithAzure" ->
               IF ~r.threw /\ r.content # <<>>
               THEN Extracted(r, parseTextToInvoiceData_Debug(r.content))
               ELSE /\ Await("read", "tryBasicOCR", 0, <<replyKind(r)>>, "awaitRead")
                    /\ UNCHANGED azureData
         [] variant = "Debug" /\ pending.site = "tryBasicOCR" ->
               IF ~r.threw /\ Len(r.content) > 10
               THEN Extracted(r, parseTextToInvoiceData_Debug(r.content))
               ELSE Extracted(r, createMinimalFallback(file))
         [] variant = "AzureOnly" ->
               IF ~r.threw /\ Len(r.content) > 20
               THEN Extracted(r, parseTextToInvoiceData_AzureOnly(r.content))
               ELSE Extracted(r, createFallbackData_AzureOnly(file,
                        IF r.threw THEN r.message ELSE S_NoReadableText))
    /\ ocrReply' = r
    /\ UNCHANGED <<ui, variant, env, parked, event, file, enhancedData, abacusOutcome, responses>>

applyFallbackLogic(data) ==
    IF variant = "Hybrid" THEN applyFallbackLogic_Hybrid(data)
    ELSE applyFallbackLogic_Debug(data)

\* the business rules produced `data`
Enhanced(data, outcome, step) ==
    /\ enhancedData' = data
    /\ abacusOutcome' = outcome
    /\ pc' = "format"
    /\ pending' = NoCall
    /\ log' = log \o <<step>>
    /\ UNCHANGED calls

\* lines 88-97 and 372-380 (Debug), 645 and 756-766 (Hybrid), 1001 (Azure-only)
BeginEnhance ==
    /\ pc = "enhance"
    /\ CASE variant = "Debug" ->
               IF abacusConfigured
               THEN /\ Await("endpoint", "enhanceWithAbacus", 0, <<"enhance">>,
                             "awaitEndpoint")
                    /\ UNCHANGED <<enhancedData, abacusOutcome>>
               ELSE Enhanced(applyFallbackLogic_Debug(azureData), "none", "local rules")
         [] variant = "Hybrid" ->
               /\ Await("prediction", "enhanceWithAbacus", AbacusTimeout, <<"enhance">>,
                        "awaitPrediction")
               /\ UNCHANGED <<enhancedData, abacusOutcome>>
         [] variant = "AzureOnly" ->
               Enhanced(applyBusinessRules(azureData), "none", "local rules")
    /\ UNCHANGED <<ui, variant, env, parked, ocrReply, event, file, azureData, responses>>

\* the endpoint lookup settles: lines 382-402, and 98-101 when it failed
EndpointReply(r) ==
    /\ pc = "awaitEndpoint"
    /\ IF ~r.threw /\ r.success /\ r.result
       THEN /\ Await("prediction", "enhanceWithAbacus", AbacusTimeout, <<>>, "awaitPrediction")
            /\ UNCHANGED <<enhancedData, abacusOutcome>>
       ELSE Enhanced(applyFallbackLogic_Debug(azureData),
                     IF r.threw THEN "networkError" ELSE "nonSuccess", "local rules")
    /\ UNCHANGED <<ui, variant, env, parked, ocrReply, event, file, azureData, responses>>

\* the value of a reply that carries one: JSON.parse of a text, or the object
isInvoice(v) == "line_items" \in DOMAIN v

outcomeOf(v) == IF isInvoice(v) THEN "invoice" ELSE "notInvoice"

\* PredictionFailed had the catch kept the extracted data as they are
PredictionFailed_keepsExtracted(why) ==
    Enhanced(azureData, why, "local rules")

\* the prediction call was rejected: lines 428-435 and 98-101, 780-783
PredictionFailed(why) ==
    Enhanced(applyFallbackLogic(azureData), why, "local rules")

\* the prediction call settles: lines 404-426 (Debug), 768-778 (Hybrid)
PredictionReply ==
    /\ pc = "awaitPrediction"
    /\ \E r \in PredictionReplies(azureData) :
          IF r.threw THEN PredictionFailed(r.why)
          ELSE IF r.field = "none" \/ (variant = "Hybrid" /\ r.field # "response")
          THEN PredictionFailed("noPayload")
          ELSE IF "object" \in DOMAIN r
          THEN Enhanced(r.object, outcomeOf(r.object), "remote data")
          ELSE IF r.text.parses
          THEN Enhanced(r.text.value, outcomeOf(r.text.value), "remote data")
          ELSE PredictionFailed("unparseable")
    /\ UNCHANGED <<ui, variant, env, parked, ocrReply, event, file, azureData, responses>>

\* the timeout of the pending call expires: axios rejects it
CallTimeout ==
    /\ pc \in {"awaitEndpoint", "awaitPrediction"}
    /\ pending.timeout > 0
    /\ PredictionFailed("timeout")
    /\ UNCHANGED <<ui, variant, env, parked, ocrReply, event, file, azureData, responses>>

\* formatForUI had the summary counted the extracted items
formatForUI_countsExtracted(data) ==
    \* the formatter of the deployed version
    LET formatted == CASE variant = "Debug" -> formatForUI_Debug(data)
                       [] variant = "Hybrid" -> formatForUI_Hybrid(data)
                       [] variant = "AzureOnly" -> formatForUI_AzureOnly(data)
    IN  IF formatted.threw THEN formatted
        ELSE [threw |-> FALSE,
              value |-> [formatted.value EXCEPT
                            !.summary.totalItems = Len(azureData.line_items)]]

formatForUI(data) ==
    CASE variant = "Debug" -> formatForUI_Debug(data)
      [] variant = "Hybrid" -> formatForUI_Hybrid(data)
      [] variant = "AzureOnly" -> formatForUI_AzureOnly(data)

\* FormatAndRespond had the handler formatted the extracted Invoice as soon as
\* extraction returned it
FormatAndRespond_beforeEnhancement ==
    /\ pc = "enhance"
    /\ \E formatted \in {formatForUI(azureData)} :
          IF formatted.threw
          THEN Return(500, caughtBody(formatted.message), <<"format">>)
          ELSE Return(200, formatted.value, <<"format">>)
    /\ UNCHANGED <<ui, variant, env, parked, ocrReply, event, file, azureData, enhancedData, abacusOutcome, calls>>

\* lines 104-115 and 117-131, 649-656 and 658-668, 1004-1016 and 1018-1029
FormatAndRespond ==
    /\ pc = "format"
    /\ \E formatted \in {formatForUI(enhancedData)} :
          IF formatted.threw
          THEN Return(500, caughtBody(formatted.message), <<"format">>)
          ELSE Return(200, formatted.value, <<"format">>)
    /\ UNCHANGED <<ui, variant, env, parked, ocrReply, event, file, azureData, enhancedData, abacusOutcome, calls>>

Next ==
    \/ \E e \in Events : Receive(e)
    \/ Preflight
    \/ MethodNotAllowed
    \/ AcceptPost
    \/ CheckCredentials
    \/ DecodeUpload
    \/ BeginExtract
    \/ \E r \in InvoiceReplies : InvoiceReply(r)
    \/ \E r \in ReadReplies : ReadReply(r)
    \/ BeginEnhance
    \/ \E r \in EndpointReplies : EndpointReply(r)
    \/ PredictionReply
    \/ CallTimeout
    \/ FormatAndRespond

Spec == Init /\ [][Next]_vars

----------------------------------------------------------------------------
(* Two invocations of the handler in one process.  Node runs one of them   *)
(* at a time and changes over only where the running one awaits a backend  *)
(* (or has returned, or has not started); the locals of the other stay in  *)
(* its closure.                                                            *)

\* the locals of the running invocation
running ==
    [pc |-> pc, event |-> event, file |-> file, azureData |-> azureData,
     enhancedData |-> enhancedData, abacusOutcome |-> abacusOutcome, pending |-> pending,
     calls |-> calls, log |-> log, responses |-> responses, ocrReply |-> ocrReply]

\* the positions at which the event loop may run the other invocation
AwaitPoints == {"idle", "awaitInvoice", "awaitRead", "awaitEndpoint", "awaitPrediction", "done"}

\* Yield had `file` been a variable of the module instead of a const of the handler
Yield_sharedFile ==
    /\ pc \in AwaitPoints
    /\ parked # running
    /\ parked' = running
    /\ pc' = parked.pc
    /\ event' = parked.event
    /\ file' = file
    /\ azureData' = parked.azureData
    /\ enhancedData' = parked.enhancedData
    /\ abacusOutcome' = parked.abacusOutcome
    /\ pending' = parked.pending
    /\ calls' = parked.calls
    /\ log' = parked.log
    /\ responses' = parked.responses
    /\ ocrReply' = parked.ocrReply
    /\ UNCHANGED <<ui, variant, env>>

\* the running invocation awaits and the event loop resumes the other one
Yield ==
    /\ pc \in AwaitPoints
    /\ parked # running
    /\ parked' = running
    /\ pc' = parked.pc
    /\ event' = parked.event
    /\ file' = parked.file
    /\ azureData' = parked.azureData
    /\ enhancedData' = parked.enhancedData
    /\ abacusOutcome' = parked.abacusOutcome
    /\ pending' = parked.pending
    /\ calls' = parked.calls
    /\ log' = parked.log
    /\ responses' = parked.responses
    /\ ocrReply' = parked.ocrReply
    /\ UNCHANGED <<ui, variant, env>>

\* the uploads of the concurrent requests: two files told apart by their names
ConcurrentEvents ==
    [httpMethod : {"POST"}, headers : {("content-type" :> ContentType_Multipart)},
     body : {Body_FileAndProvider, Body_FileNoFilename}]

ConcurrentInvoiceReplies ==
    {r \in InvoiceReplies : r.threw \/ ("documents" \in DOMAIN r /\ Len(r.documents) > 0
                                          /\ "Items" \in DOMAIN r.documents[1]
                                          /\ r.documents[1].Items = azureItems(1, 1))}

ConcurrentReadReplies ==
    {r \in ReadReplies : r.threw \/ r.content = Text_Medium}

InitConcurrent ==
    /\ Init
    /\ env = [azureEndpoint |-> TRUE, azureKey |-> TRUE, abacusKey |-> TRUE]

NextConcurrent ==
    \/ \E e \in ConcurrentEvents : Receive(e)
    \/ AcceptPost
    \/ CheckCredentials
    \/ DecodeUpload
    \/ BeginExtract
    \/ \E r \in ConcurrentInvoiceReplies : InvoiceReply(r)
    \/ \E r \in ConcurrentReadReplies : ReadReply(r)
    \/ BeginEnhance
    \/ \E r \in EndpointReplies : EndpointReply(r)
    \/ PredictionReply
    \/ CallTimeout
    \/ FormatAndRespond
    \/ Yield

SpecConcurrent == InitConcurrent /\ [][NextConcurrent]_vars

----------------------------------------------------------------------------
(* Properties of the handler                                               *)

\* no backend has been called for the request in progress
noBackendCalled == calls = [invoice |-> 0, read |-> 0, endpoint |-> 0, prediction |-> 0]

\* the request in progress is a POST
isPost == event.httpMethod = "POST"

\* the handler has returned its response to the request in progress
answered == pc = "done" /\ Len(responses) = 1

\* every credential the deployed version requires is configured
credentialsOk == azureConfigured /\ (variant = "Hybrid" => abacusConfigured)

\* extraction has ended and no OCR reply of the request carried data
noTextRecovered ==
    /\ \E i \in 1..Len(log) : log[i] = "extracted"
    /\ \A i \in 1..Len(log) : log[i] # "data"

\* the request is a POST whose body decodes to parts none of which is named file
noFilePart ==
    /\ isPost
    /\ \E parsed \in {parseMultipartForm(event.body, event.headers)} :
          ~parsed.threw /\ S_file \notin DOMAIN parsed.parts

\* the ways the enhancement call can be rejected
RejectedOutcomes == {"networkError", "nonSuccess", "timeout", "noPayload", "unparseable"}

\* the ways the enhancement call can fail: a rejection, or a reply that parses
\* but is no invoice
FailedOutcomes == RejectedOutcomes \union {"notInvoice"}

\* C1: in each version a request with method OPTIONS is answered with status 200
\* and an empty body, and a request with a method other than OPTIONS and POST is
\* answered with status 405; either answer is the handler's first step, given
\* before the credentials are checked, the body is decoded or a backend is called.
C1_MethodAnsweredFirst ==
    (pc \notin {"idle", "entered"} /\ ~isPost) =>
        /\ answered
        /\ IF event.httpMethod = "OPTIONS"
           THEN responses[1].statusCode = 200 /\ DOMAIN responses[1].body = {}
           ELSE responses[1].statusCode = 405
        /\ log = <<"method", "respond">>
        /\ noBackendCalled
        /\ DOMAIN file = {}

\* a GET was refused although the credentials are missing and were never checked
C1_RefusedBeforeCredentials ==
    /\ answered
    /\ event.httpMethod = "GET"
    /\ ~azureConfigured
    /\ responses[1].statusCode = 405

\* C2: for a POST with credentials and a decodable file part, when extraction
\* recovers no text (every OCR call throws or comes back empty) the response is a
\* 200 whose items array holds exactly one entry, with costExGST 0 and the
\* placeholder description; it is never an empty array and never a 500.
C2_NoTextGivesOnePlaceholder ==
    (answered /\ noTextRecovered) =>
        /\ responses[1].statusCode = 200
        /\ Len(responses[1].body.items) = 1
        /\ responses[1].body.items[1].costExGST = 0
        /\ responses[1].body.items[1].product = azureData.line_items[1].description

\* C3: on any failure of the remote enhancement call (network error, timeout,
\* non-success reply, unparseable JSON, JSON that is no invoice) the handler
\* formats the output of the local rules and responds 200, never 500.
C3_EnhancementFailureFallsBack ==
    (answered /\ abacusOutcome \in FailedOutcomes) =>
        /\ responses[1].statusCode = 200
        /\ enhancedData = applyFallbackLogic(azureData)

\* C4: when the remote enhancement call is rejected (for example it times out)
\* the response is a 200 in which every item has the category and the markup
\* that applyFallbackLogic assigns to the same extracted item.
C4_FailureEqualsLocalRules ==
    (answered /\ abacusOutcome \in RejectedOutcomes) =>
        /\ responses[1].statusCode = 200
        /\ \E local \in {applyFallbackLogic(azureData).line_items} :
              /\ Len(responses[1].body.items) = Len(local)
              /\ \A i \in 1..Len(local) :
                    /\ responses[1].body.items[i].category = local[i].category
                    /\ responses[1].body.items[i].markup = local[i].markup

\* the enhancement call timed out and an item was categorised as organic
C4_TimedOutAndCategorised ==
    /\ answered
    /\ abacusOutcome = "timeout"
    /\ responses[1].statusCode = 200
    /\ \E i \in 1..Len(responses[1].body.items) :
          responses[1].body.items[i].category \in {"Organic", "organic"}

\* C5, as claimed: a POST whose multipart body has no part named file is
\* answered with a 4xx status.
C5_NoFilePartIs4xx ==
    (answered /\ noFilePart) => responses[1].statusCode \in 400..499

\* C5: a POST whose multipart body has no part named file is answered with
\* status 500 and an error message, in each version, and no backend is called;
\* with the credentials configured the message is 'No file uploaded' and the
\* body has a details string.
C5_NoFilePartIs500 ==
    (answered /\ noFilePart) =>
        /\ responses[1].statusCode = 500
        /\ "error" \in DOMAIN responses[1].body
        /\ noBackendCalled
        /\ credentialsOk =>
              /\ responses[1].body.error = "No file uploaded"
              /\ "details" \in DOMAIN responses[1].body

\* a body without a file part was answered 'No file uploaded'
C5_NoFileUploaded ==
    /\ answered
    /\ noFilePart
    /\ responses[1].statusCode = 500
    /\ responses[1].body.error = "No file uploaded"

\* C6, as claimed: in each version a POST received while the OCR endpoint or key
\* is absent is answered with a 500 whose body carries a debug flag saying for
\* each credential whether it is set or missing; no backend is called.
C6_MissingCredentialHasDebugFlag ==
    (answered /\ isPost /\ ~azureConfigured) =>
        /\ responses[1].statusCode = 500
        /\ "debug" \in DOMAIN responses[1].body
        /\ responses[1].body.debug = [endpoint |-> setOrMissing(env.azureEndpoint),
                                      key      |-> setOrMissing(env.azureKey)]
        /\ noBackendCalled

\* C6: a POST received while the OCR endpoint or key is absent is answered with
\* a 500 and no backend is called; the Debug and Azure-only versions send the
\* debug flag (endpoint and key, each SET or MISSING), the Hybrid version sends
\* no debug flag but the error message and a details string.
C6_MissingCredentialIs500 ==
    (answered /\ isPost /\ ~azureConfigured) =>
        /\ responses[1].statusCode = 500
        /\ noBackendCalled
        /\ responses[1].body.error = "Azure Document Intelligence credentials not configured"
        /\ IF variant = "Hybrid"
           THEN DOMAIN responses[1].body = {"error", "details"}
           ELSE /\ DOMAIN responses[1].body = {"error", "debug"}
                /\ responses[1].body.debug =
                       [endpoint |-> setOrMissing(env.azureEndpoint),
                        key      |-> setOrMissing(env.azureKey)]

\* the Hybrid version refused a POST because the OCR key is missing
C6_HybridWithoutKey ==
    /\ answered
    /\ isPost
    /\ variant = "Hybrid"
    /\ env.azureEndpoint
    /\ ~env.azureKey
    /\ responses[1].statusCode = 500

\* C7, as claimed: every response with status 500 has a body with an error
\* string and a details string.
C7_Every500HasErrorAndDetails ==
    \A i \in 1..Len(responses) :
        responses[i].statusCode = 500 =>
            {"error", "details"} \subseteq DOMAIN responses[i].body

\* C7: every response with status 500 has a body with an error string; it has
\* a details string too unless it is the missing-credentials response of the
\* Debug or the Azure-only version, which has error and debug only.
C7_Every500HasError ==
    \A i \in 1..Len(responses) :
        responses[i].statusCode = 500 =>
            /\ "error" \in DOMAIN responses[i].body
            /\ "details" \in DOMAIN responses[i].body
                  <=> ~(variant \in {"Debug", "AzureOnly"} /\ ~azureConfigured)

\* the top-level catch answered a POST whose content type has no boundary
C7_CaughtMissingBoundary ==
    /\ answered
    /\ responses[1].statusCode = 500
    /\ responses[1].body.error = "No boundary found in content-type header"
    /\ "details" \in DOMAIN responses[1].body

C9_EnhancementCallsHaveTimeout ==
    pc \in {"awaitEndpoint", "awaitPrediction"} => pending.timeout > 0

\* C10, as claimed: within one request the structured-invoice model is called
\* at most once and the prebuilt-read model at most once.
C10_EachModelCalledOnce ==
    calls.invoice <= 1 /\ calls.read <= 1

\* the most calls of the prebuilt-read model in one request of each version
MaxReads == [Debug |-> 2, Hybrid |-> 0, AzureOnly |-> 1]

\* C10: within one request the structured-invoice model is called at most once;
\* the prebuilt-read model is called at most twice by the Debug version (in
\* extractWithAzure and again in tryBasicOCR), at most once by the Azure-only
\* version and never by the Hybrid version; each enhancement call at most once.
C10_CallBounds ==
    /\ calls.invoice <= 1
    /\ calls.read <= MaxReads[variant]
    /\ calls.endpoint <= 1
    /\ calls.prediction <= 1

\* the Debug version read the document twice in one request
C10_DebugReadTwice ==
    /\ answered
    /\ variant = "Debug"
    /\ calls.invoice = 1
    /\ calls.read = 2

\* extraction has returned an Invoice to the handler
extractionEnded == \E i \in 1..Len(log) : log[i] = "extracted"

\* the prebuilt-invoice call threw or came back without a document
invoiceFailed ==
    \E i \in 1..(Len(log) - 1) : log[i] = "invoice" /\ log[i + 1] \in {"threw", "empty"}

\* the extracted Invoice is the placeholder of createMinimalFallback / createFallbackData
isPlaceholder(data) == DOMAIN data # {} /\ data.supplier.name = S_ProcessingError

\* C11: in each version, when the prebuilt-invoice call throws or returns no
\* document, the prebuilt-read model is called on the file before extraction
\* returns, and a placeholder Invoice is produced only after a prebuilt-read call.
C11_TextOcrBeforePlaceholder ==
    /\ (extractionEnded /\ invoiceFailed) => calls.read >= 1
    /\ isPlaceholder(azureData) => calls.read >= 1

\* the provider part of the form of the request in progress, <<>> when absent
declaredProvider ==
    Let(parseMultipartForm(event.body, event.headers), LAMBDA parsed :
        IF ~parsed.threw /\ <<"p", "r", "o", "v", "i", "d", "e", "r">> \in DOMAIN parsed.parts
        THEN parsed.parts[<<"p", "r", "o", "v", "i", "d", "e", "r">>] ELSE <<>>)

\* C12: the OCR backend a file is submitted to is selected by the provider part
\* of the form: a file uploaded with provider mindee is not submitted to the
\* Azure Document Intelligence models, where one uploaded with provider azure is.
C12_ProviderSelectsBackend ==
    (isPost /\ declaredProvider = <<"m", "i", "n", "d", "e", "e">>) =>
        calls.invoice = 0 /\ calls.read = 0

\* the request is a POST whose body decodes to parts one of which is named file
hasFilePart ==
    /\ isPost
    /\ \E parsed \in {parseMultipartForm(event.body, event.headers)} :
          ~parsed.threw /\ S_file \in DOMAIN parsed.parts

\* C13: in the Debug and Hybrid versions, when the environment holds no key of
\* the enhancement service, a POST with a file (the OCR credentials configured)
\* makes no call to the enhancement service and is answered 200 with the items
\* of the local rules.
C13_NoKeyMeansLocalRules ==
    (variant \in {"Debug", "Hybrid"} /\ ~env.abacusKey /\ azureConfigured /\ hasFilePart) =>
        /\ calls.endpoint = 0 /\ calls.prediction = 0
        /\ answered =>
              /\ responses[1].statusCode = 200
              /\ enhancedData = applyFallbackLogic(azureData)

\* extraction can return `data` for the file f: it is the placeholder for f, or
\* what the version makes of a reply of an OCR model
extractedFrom(data, f) ==
    CASE variant = "Debug" ->
            \/ data = createMinimalFallback(f)
            \/ \E r \in ConcurrentInvoiceReplies :
                  hasDocuments(r) /\ data = transformAzureData_Debug(r.documents[1])
            \/ \E r \in ConcurrentReadReplies :
                  ~r.threw /\ data = parseTextToInvoiceData_Debug(r.content)
      [] variant = "Hybrid" ->
            \/ data = createFallbackData_Hybrid(f)
            \/ \E r \in ConcurrentInvoiceReplies :
                  hasDocuments(r) /\ data = transformAzureData_Hybrid(r.documents[1])
      [] variant = "AzureOnly" ->
            \/ \E m \in {S_ServiceUnavailable, S_NoReadableText} :
                  data = createFallbackData_AzureOnly(f, m)
            \/ \E r \in ConcurrentInvoiceReplies :
                  hasDocuments(r) /\ data = transformAzureInvoiceData(r.documents[1])
            \/ \E r \in ConcurrentReadReplies :
                  ~r.threw /\ data = parseTextToInvoiceData_AzureOnly(r.content)

\* the Invoices the business rules can return for the extracted Invoice `data`,
\* over every reply of the enhancement service to the call that sent `data`
EnhancementsOf(data) ==
    CASE variant = "Debug" -> {applyFallbackLogic_Debug(data)} \union RemoteValues(data)
      [] variant = "Hybrid" -> {applyFallbackLogic_Hybrid(data)} \union RemoteValues(data)
      [] variant = "AzureOnly" -> {applyBusinessRules(data)}

\* the locals of the invocation c derive from its own event and from the
\* replies to its own calls
derivesFromOwnRequest(c) ==
    /\ DOMAIN c.file # {} =>
          \E parsed \in {parseMultipartForm(c.event.body, c.event.headers)} :
              ~parsed.threw /\ S_file \in DOMAIN parsed.parts /\ c.file = parsed.parts[S_file]
    /\ DOMAIN c.azureData # {} => extractedFrom(c.azureData, c.file)
    /\ DOMAIN c.enhancedData # {} => c.enhancedData \in EnhancementsOf(c.azureData)
    /\ (c.pc = "done" /\ Len(c.responses) = 1 /\ c.event.httpMethod = "POST") =>
          \E formatted \in {formatForUI(c.enhancedData)} :
              IF c.responses[1].statusCode = 200
              THEN ~formatted.threw /\ c.responses[1].body = formatted.value
              ELSE formatted.threw /\ c.responses[1].body.error = formatted.message

\* C14: when two requests are processed concurrently, interleaved at their
\* awaits, what each invocation holds and answers derives from its own request
\* body and from the replies to its own calls, whatever the other one does, and
\* no step writes the configuration of the module.
C14_RequestsIndependent ==
    /\ [](derivesFromOwnRequest(running) /\ derivesFromOwnRequest(parked))
    /\ [][variant' = variant /\ env' = env]_vars

\* one upload was answered 200 while the other one, of another file, was still
\* awaiting its OCR call
C14_AnsweredWhileOtherAwaits ==
    /\ answered
    /\ responses[1].statusCode = 200
    /\ parked.pc = "awaitInvoice"
    /\ parked.file.filename # file.filename

\* the positions of a step in the log of the request in progress
positions(steps) == {i \in 1..Len(log) : log[i] \in steps}

\* a step of enhancement: its start, a call to the service, its result
EnhanceSteps == {"enhance", "endpoint", "prediction", "local rules", "remote data"}

\* C15: within one POST the steps occur in the order decode, extract, enhance,
\* format, respond: no step of enhancement comes before extraction has returned
\* an Invoice, and on every path that ends in a 200 the formatter runs exactly
\* once, right after enhancement has produced its result and right before the
\* response.
C15_PipelineOrder ==
    /\ \A i \in positions(EnhanceSteps) : \E k \in positions({"extracted"}) : k < i
    /\ \A i \in positions({"extract"}) : \E k \in positions({"decode"}) : k < i
    /\ \A i \in positions({"extracted"}) : \E k \in positions({"extract"}) : k < i
    /\ positions(EnhanceSteps) # {} => DOMAIN azureData # {}
    /\ (answered /\ isPost /\ responses[1].statusCode = 200) =>
          /\ Cardinality(positions({"format"})) = 1
          /\ Cardinality(positions({"local rules", "remote data"})) = 1
          /\ Cardinality(positions({"extracted"})) = 1
          /\ Cardinality(positions({"decode"})) = 1
          /\ log[Len(log)] = "respond"
          /\ log[Len(log) - 1] = "format"
          /\ log[Len(log) - 2] \in {"local rules", "remote data"}

\* a request went through both OCR models and the enhancement service and was
\* answered 200
C15_FullPipelineRan ==
    /\ answered
    /\ responses[1].statusCode = 200
    /\ calls.read >= 1
    /\ calls.prediction = 1
    /\ abacusOutcome = "invoice"

\* the Items of the structured document the prebuilt-invoice model returned
structuredItems ==
    IF hasDocuments(ocrReply) THEN itemsOf(ocrReply.documents[1]) ELSE <<>>

\* the extracted Invoice was mapped from a structured document
mappedFromDocument == hasDocuments(ocrReply) /\ DOMAIN azureData # {}

\* C16: for a structured document with N >= 1 items the mapper returns exactly
\* N line items in the same order, the i-th with line_number i, each with
\* line_total_inc_gst = line_total_ex_gst x 1.10 and gst_amount =
\* line_total_ex_gst x 0.10.
C16_MapperKeepsItems ==
    (mappedFromDocument /\ Len(structuredItems) >= 1) =>
        /\ Len(azureData.line_items) = Len(structuredItems)
        /\ \A i \in 1..Len(structuredItems) :
              /\ azureData.line_items[i].line_number = i
              /\ "Description" \in DOMAIN structuredItems[i] =>
                    azureData.line_items[i].description = structuredItems[i].Description
              /\ azureData.line_items[i].unit_cost =
                    (IF "UnitPrice" \in DOMAIN structuredItems[i]
                     THEN structuredItems[i].UnitPrice ELSE 0)
              /\ azureData.line_items[i].line_total_inc_gst * 100 =
                    azureData.line_items[i].line_total_ex_gst * 110
              /\ azureData.line_items[i].gst_amount * 100 =
                    azureData.line_items[i].line_total_ex_gst * 10

\* a document of two items was mapped; its first line totals 20.00 before tax
\* and 22.00 with it
C16_TwoItemsMapped ==
    /\ pc = "enhance"
    /\ mappedFromDocument
    /\ Len(structuredItems) = 2
    /\ Len(azureData.line_items) = 2
    /\ azureData.line_items[1].line_total_ex_gst = 20 * Scale
    /\ azureData.line_items[1].line_total_inc_gst = 22 * Scale
    /\ azureData.line_items[2].line_number = 2

\* C17: in each version, for a structured document with zero items (Items
\* absent or an empty array) the mapper returns exactly one placeholder line
\* item with unit_cost 0, so the mapped Invoice never has an empty line_items.
C17_NoItemsGivesPlaceholder ==
    (mappedFromDocument /\ Len(structuredItems) = 0) =>
        /\ Len(azureData.line_items) = 1
        /\ azureData.line_items[1].unit_cost = 0

\* the business rules that ran on the extracted Invoice were the local ones
localRulesApplied ==
    DOMAIN enhancedData # {} /\ abacusOutcome \in RejectedOutcomes \union {"none"}

\* the five categories in the order of their rules; the Hybrid version names
\* them in lower case
categoryRank(label) ==
    CASE label \in {"Organic", "organic"} -> 1
      [] label \in {"Supplements", "supplements"} -> 2
      [] label \in {"Bulk", "bulk"} -> 3
      [] label \in {"Cosmetics", "cosmetics"} -> 4
      [] label \in {"Groceries", "groceries"} -> 5
      [] OTHER -> 0

\* a keyword of each rule, in the order of the rules
RuleKeywords ==
    <<<<"o", "r", "g", "a", "n", "i", "c">>, <<"v", "i", "t", "a", "m", "i", "n">>,
      <<"b", "u", "l", "k">>, <<"o", "i", "l">>>>

S_OrganicVitaminC ==
    <<"O", "r", "g", "a", "n", "i", "c", " ", "V", "i", "t", "a", "m", "i", "n", " ", "C">>

\* the category each version gives a description
categoriesOf(description) ==
    {categorizeProduct_Debug(description), categorizeProduct_Hybrid(description),
     categorizeProduct_AzureOnly(description)}

\* C18: the local rules classify every description into exactly one of the five
\* categories by case-insensitive substring match, the rules tried in the order
\* organic, supplements, bulk, cosmetics, else groceries and the first match
\* winning: "Organic Vitamin C" is Organic (not Supplements), "Vitamin C" is
\* Supplements, "BULK Olive Oil" is Bulk, "Olive Oil" is Cosmetics, "Brown Rice"
\* and the empty description are Groceries.
C18_FirstRuleWins ==
    /\ \A c \in categoriesOf(S_OrganicVitaminC) : categoryRank(c) = 1
    /\ \A c \in categoriesOf(<<"V", "i", "t", "a", "m", "i", "n", " ", "C">>) :
          categoryRank(c) = 2
    /\ \A c \in categoriesOf(<<"B", "U", "L", "K", " ", "O", "l", "i", "v", "e", " ", "O",
                              "i", "l">>) : categoryRank(c) = 3
    /\ \A c \in categoriesOf(<<>>) : categoryRank(c) = 5
    /\ localRulesApplied =>
          \A i \in 1..Len(enhancedData.line_items) :
              \E item \in {enhancedData.line_items[i]} :
                  /\ categoryRank(item.category) \in 1..5
                  /\ \A k \in 1..Len(RuleKeywords) :
                        includes(toLowerCase(item.description), RuleKeywords[k]) =>
                            categoryRank(item.category) <= k
                  /\ item.description = S_OrganicVitaminC => categoryRank(item.category) = 1
                  /\ item.description = <<"O", "l", "i", "v", "e", " ", "O", "i", "l">> =>
                        categoryRank(item.category) = 4
                  /\ item.description = <<"B", "r", "o", "w", "n", " ", "R", "i", "c", "e">> =>
                        categoryRank(item.category) = 5

\* the local rules ran on an Invoice with the items Organic Vitamin C and Olive
\* Oil and put the first under Organic, the second under Cosmetics
C18_OrganicBeforeSupplements ==
    /\ pc = "format"
    /\ localRulesApplied
    /\ Len(enhancedData.line_items) = 2
    /\ enhancedData.line_items[1].description = S_OrganicVitaminC
    /\ categoryRank(enhancedData.line_items[1].category) = 1
    /\ categoryRank(enhancedData.line_items[2].category) = 4

\* the markup of each category, in hundredths, in the order of the rules:
\* Organic 0.45, Supplements 0.50, Bulk 0.35, Cosmetics 0.55, Groceries 0.40
MarkupOfRank == <<45, 50, 35, 55, 40>>

\* C19: in each version the local rules give every item the retail price
\* unit_cost x (1 + markup) x 1.10, markup being the percentage of the item's
\* category: a unit cost of 10 in Groceries gives 15.40.
C19_RetailIncludesTax ==
    localRulesApplied =>
        \A i \in 1..Len(enhancedData.line_items) :
            \E item \in {enhancedData.line_items[i]} :
                /\ item.retailPrice * 10000 =
                       item.unit_cost * (100 + MarkupOfRank[categoryRank(item.category)]) * 110
                /\ (item.unit_cost = 10 * Scale /\ categoryRank(item.category) = 5) =>
                       item.retailPrice = (1540 * Scale) \div 100

\* C20: the local rules flag an item for manual review exactly when its product
\* code is missing or short or its unit cost is zero: an item with a full
\* product code and a non-zero unit cost is not flagged, one with no product
\* code is flagged, one with a full product code and unit cost 0 is flagged.
C20_ReviewFlag ==
    localRulesApplied =>
        \A i \in 1..Len(enhancedData.line_items) :
            \E item \in {enhancedData.line_items[i]} :
                /\ (Len(stringOf(item, "product_code")) >= 3 /\ item.unit_cost # 0) =>
                       ~needsReview(item)
                /\ Len(stringOf(item, "product_code")) = 0 => needsReview(item)
                /\ item.unit_cost = 0 => needsReview(item)

----------------------------------------------------------------------------
(* Quantities and defaults of the extracted line items                     *)

\* the extracted Invoice was parsed from the text of a prebuilt-read reply
parsedFromText ==
    /\ ~ocrReply.threw
    /\ "content" \in DOMAIN ocrReply
    /\ DOMAIN azureData # {}
    /\ ~isPlaceholder(azureData)

\* C21: every line item built by the structured-field mapper or by the
\* text-pattern parser has quantity > 0, whatever the backend returned; a
\* missing unit price gives unit_cost 0, a missing amount gives a line total of
\* quantity x unit_cost, and no absent field keeps the mapper from returning
\* one line item per item of the document.
C21_QuantityPositive ==
    /\ (mappedFromDocument \/ parsedFromText) =>
          \A i \in 1..Len(azureData.line_items) : azureData.line_items[i].quantity > 0
    /\ (mappedFromDocument /\ Len(structuredItems) >= 1) =>
          /\ Len(azureData.line_items) = Len(structuredItems)
          /\ \A i \in 1..Len(structuredItems) :
                /\ "UnitPrice" \notin DOMAIN structuredItems[i] =>
                      azureData.line_items[i].unit_cost = 0
                /\ "Amount" \notin DOMAIN structuredItems[i] =>
                      azureData.line_items[i].line_total_ex_gst =
                          azureData.line_items[i].quantity * azureData.line_items[i].unit_cost

----------------------------------------------------------------------------
(* The text-pattern parser                                                 *)

\* the lines of the text the parser of the version at hand keeps
keptLines(text) ==
    IF variant = "AzureOnly" THEN SelectSeq(split(text, <<"LF">>), longEnough)
    ELSE SelectSeq(split(text, <<"LF">>), nonBlank)

StopKeywords == {S_invoice, S_tax, <<"g", "s", "t">>, S_total, S_date}

\* a line may name the supplier: longer than 5 characters, no leading digit,
\* no stop keyword
maySupply(line) ==
    /\ Len(line) > 5
    /\ line[1] \notin Digits
    /\ \A k \in StopKeywords : ~includes(toLowerCase(line), k)

\* the first of the first lines (at most 10) that may name the supplier, as it
\* stands or trimmed, or "Unknown Supplier"
suppliersOf(lines) ==
    Let({i \in 1..Min({10, Len(lines)}) : maySupply(lines[i])}, LAMBDA hits :
        IF hits = {} THEN {S_UnknownSupplier}
        ELSE {lines[Min(hits)], trim(lines[Min(hits)])})

\* C22: the text-pattern parser chooses as supplier the first line, among the
\* first lines of the text (at most 10), that is longer than 5 characters, does
\* not start with a digit and contains none of the stop keywords invoice, tax,
\* gst, total, date; when none of those lines qualifies the supplier is
\* "Unknown Supplier", even if a later line would qualify.
C22_SupplierHeuristic ==
    parsedFromText => azureData.supplier.name \in suppliersOf(keptLines(ocrReply.content))

\* the elements of a sequence of <<>> / <<x>> options, in order
RECURSIVE present(_)
present(options) ==
    IF options = <<>> THEN <<>> ELSE Head(options) \o present(Tail(options))

\* the candidate prices of a line, in 1/Scale dollars: the first number of the
\* line (Debug), every number of the trimmed line (Azure-only)
candidatePrices(line) ==
    IF variant = "AzureOnly"
    THEN Let(priceMatches(trim(line)), LAMBDA matches :
             present([i \in 1..Len(matches) |-> parseFloat(without(matches[i], {","}))]))
    ELSE priceOf_Debug(line)

\* the parser looks for prices on the line
examined(line) == variant = "AzureOnly" => ~skipped_AzureOnly(trim(line))

\* the line totals the parser is to emit for `lines` when it accepts a
\* candidate price p exactly when low < p < 10000 dollars: for each examined
\* line, its first accepted candidate
totalsWithin(lines, low) ==
    present([i \in 1..Len(lines) |->
        IF ~examined(lines[i]) THEN <<>>
        ELSE Let(SelectSeq(candidatePrices(lines[i]),
                           LAMBDA p : p > low /\ p < 10000 * Scale),
                 LAMBDA accepted : IF accepted = <<>> THEN <<>> ELSE <<Head(accepted)>>)])

\* the parsed Invoice carries exactly the items of these line totals, or the
\* one item that stands for "no items" when there is none
itemsTotal(totals) ==
    IF totals = <<>>
    THEN Len(azureData.line_items) = 1 /\ azureData.line_items[1].line_total_ex_gst = 0
    ELSE pluck(azureData.line_items, "line_total_ex_gst") = totals

\* C23 (as stated): the text-pattern parser rejects a candidate price that is
\* <= 0.50 or >= 10000 and accepts a candidate price between those bounds, the
\* line then yielding an item with that price.
C23_RejectsUpToHalfDollar ==
    parsedFromText => itemsTotal(totalsWithin(keptLines(ocrReply.content), Scale \div 2))

\* C23 (amended): the text-pattern parser rejects a candidate price that is
\* <= 1 or >= 10000 and accepts a candidate price strictly between 1 and 10000,
\* the line then yielding an item with that price: a detected price of 0.20,
\* 0.80 or 1.00 yields no item, a detected price of 5.00 yields an item.
C23_RejectsUpToOneDollar ==
    parsedFromText => itemsTotal(totalsWithin(keptLines(ocrReply.content), 1 * Scale))

\* the text with the prices 0.80, 0.20, 1.00, 10000.00 and 5.00 was parsed and
\* only the line of 5.00 gave an item
C23_OnlyFiveDollarsAccepted ==
    /\ parsedFromText
    /\ ocrReply.content = Text_Prices
    /\ pluck(azureData.line_items, "line_total_ex_gst") = <<5 * Scale>>
    /\ azureData.line_items[1].unit_cost = 5 * Scale

\* a line "<quantity> x <description> $<price>" as <<quantity, price>>, the
\* price in 1/Scale dollars; <<>> for any other line
quantityLine(line) ==
    Let(leadingRun(line, Digits), LAMBDA qty :
    Let(indexOf(line, <<"$">>, 0), LAMBDA dollar :
        IF /\ qty # <<>>
           /\ SubSeq(line, Len(qty) + 1, Len(qty) + 3) = <<" ", "x", " ">>
           /\ dollar > Len(qty) + 3
           /\ parseFloat(SubSeq(line, dollar + 2, Len(line))) # <<>>
        THEN <<digitsValue(qty), parseFloat(SubSeq(line, dollar + 2, Len(line)))[1]>>
        ELSE <<>>))

\* C24: for a text line that carries a quantity, a description and a price
\* ("3 x Pears $15.00") the text-pattern parser emits an item whose quantity is
\* the quantity on the line, whose line total is the price on the line and
\* whose unit cost is that price divided by the quantity.
C24_QuantityTimesUnitCost ==
    parsedFromText =>
        \A line \in {keptLines(ocrReply.content)[i] : i \in 1..Len(keptLines(ocrReply.content))} :
            quantityLine(line) # <<>> =>
                \E i \in 1..Len(azureData.line_items) :
                    /\ azureData.line_items[i].quantity = quantityLine(line)[1]
                    /\ azureData.line_items[i].line_total_ex_gst = quantityLine(line)[2]
                    /\ azureData.line_items[i].unit_cost * quantityLine(line)[1]
                           = quantityLine(line)[2]

\* the currency-like tokens of a text: the '$' signs that a digit follows
currencyTokens(text) ==
    Cardinality({i \in 1..(Len(text) - 1) : text[i] = "$" /\ text[i + 1] \in Digits})

\* the parser recovered no item from the text of the read reply
noItemRecovered ==
    parsedFromText /\ totalsWithin(keptLines(ocrReply.content), 1 * Scale) = <<>>

\* the line item stands for "no items": one of the two fixed descriptions,
\* quantity 1 and no cost
standsForNoItems(item) ==
    /\ item.description \in {S_NoItemsIdentified, S_NoClearItems}
    /\ item.quantity = 1
    /\ item.unit_cost = 0
    /\ item.line_total_ex_gst = 0

\* C25 (as stated): when the text-pattern parser recovers zero items from a
\* text it scans the text for currency-like tokens and emits between one and
\* three generic placeholder items, one per token found, up to 3.
C25_OnePlaceholderPerToken ==
    noItemRecovered =>
        /\ Len(azureData.line_items) = Max({1, Min({3, currencyTokens(ocrReply.content)})})
        /\ \A i \in 1..Len(azureData.line_items) : standsForNoItems(azureData.line_items[i])

\* C25 (amended): when the text-pattern parser recovers zero items from a text
\* it emits exactly one generic placeholder item, of quantity 1 and unit cost
\* 0, however many currency-like tokens the text holds.
C25_OnePlaceholder ==
    noItemRecovered =>
        /\ Len(azureData.line_items) = 1
        /\ standsForNoItems(azureData.line_items[1])
        /\ azureData.line_items[1].line_number = 1

\* a text with two currency-like tokens, both below a dollar, was parsed into
\* one placeholder item
C25_TwoTokensOnePlaceholder ==
    /\ noItemRecovered
    /\ currencyTokens(ocrReply.content) = 2
    /\ Len(azureData.line_items) = 1
    /\ azureData.line_items[1].description = S_NoClearItems

----------------------------------------------------------------------------
(* Decoding the upload                                                     *)

\* file contents and provider texts an upload may carry
UploadedFiles == {<<"%", "P", "D", "F">>, <<"B", "M">>}

ProviderTexts == {<<"a", "z", "u", "r", "e">>, <<"m", "i", "n", "d", "e", "e">>}

\* C27: decoding a well-formed multipart body round-trips the uploaded file:
\* for a `file` part of content B (without the boundary) and a `provider` part,
\* parts.file.data is B byte for byte and parts.provider is the provider text.
C27_UploadRoundTrips ==
    \A B \in UploadedFiles, p \in ProviderTexts :
        (event.body = encodeForm(B, p) /\ DOMAIN file # {}) =>
            /\ file.data = B
            /\ declaredProvider = p

----------------------------------------------------------------------------
(* Validation comes before the backends                                    *)

BackendCalls == {"invoice", "read", "endpoint", "prediction"}

\* the request in progress passed every check of the handler: it is a POST,
\* the credentials are configured, the content-type has a boundary and a part
\* named file was decoded
validated ==
    /\ isPost
    /\ credentialsOk
    /\ boundaryOf(event.headers) # <<>>
    /\ DOMAIN file # {}

\* C28: no OCR or enhancement backend call is made for a request until its
\* validation has passed: the first backend call comes after the method, the
\* credentials and the upload were checked, in that order, and a request
\* rejected at any of those checks makes zero backend calls.
C28_ValidatedBeforeBackend ==
    /\ (~noBackendCalled \/ positions(BackendCalls) # {}) =>
          /\ validated
          /\ Len(log) > 3
          /\ SubSeq(log, 1, 3) = <<"method", "credentials", "decode">>
          /\ \A i \in positions(BackendCalls) : i > 3
    /\ (answered /\ ~validated) =>
          /\ noBackendCalled
          /\ positions(BackendCalls) = {}

\* the first backend call of a validated request is in flight
C28_FirstCallInFlight ==
    /\ validated
    /\ pc = "awaitInvoice"
    /\ calls = [invoice |-> 1, read |-> 0, endpoint |-> 0, prediction |-> 0]
    /\ log = <<"method", "credentials", "decode", "extract", "invoice">>

----------------------------------------------------------------------------
(* The response formatter                                                  *)

\* the response in hand is the formatted Invoice
formatted ==
    /\ answered
    /\ responses[1].statusCode = 200
    /\ Len(log) >= 2
    /\ SubSeq(log, Len(log) - 1, Len(log)) = <<"format", "respond">>

\* the field f of a line item is set and is not f's empty value: "" for the
\* category, 0 for a number
isSet(item, f) ==
    f \in DOMAIN item /\ (IF f = "category" THEN item[f] # "" ELSE item[f] # 0)

\* the output item is the line item reshaped: description, quantity and unit
\* cost copied, category, markup and retail price passed through when set and
\* defaulted (Groceries, 1.65, unit_cost x markup) when not
reshaped(out, item) ==
    /\ out.product = item.description
    /\ out.quantity = item.quantity
    /\ out.costExGST = item.unit_cost
    /\ out.category = (IF isSet(item, "category") THEN item.category ELSE "Groceries")
    /\ out.markup = (IF isSet(item, "markup") THEN item.markup ELSE 165)
    /\ out.retailPrice = (IF isSet(item, "retailPrice") THEN item.retailPrice
                          ELSE (item.unit_cost * out.markup) \div 100)

\* C29: formatForUI emits exactly one output item per input line item, in the
\* same order, with product = description, quantity = quantity and costExGST =
\* unit_cost; a category, markup or retailPrice already set is passed through
\* and the defaults are used only where the value is absent or zero; and the
\* step leaves the enhanced Invoice and its line items unchanged.
C29_FormatterReshapes ==
    /\ [](formatted =>
            /\ Len(responses[1].body.items) = Len(enhancedData.line_items)
            /\ \A i \in 1..Len(enhancedData.line_items) :
                  reshaped(responses[1].body.items[i], enhancedData.line_items[i]))
    /\ [][pc = "format" => enhancedData' = enhancedData]_vars

\* a response of two items was formatted, the first with the category and the
\* markup the enhancement service gave it
C29_PassedThrough ==
    /\ formatted
    /\ Len(responses[1].body.items) = 2
    /\ isSet(enhancedData.line_items[1], "category")
    /\ enhancedData.line_items[1].category = "Supplements"
    /\ responses[1].body.items[1].category = "Supplements"
    /\ responses[1].body.items[1].markup = 150

----------------------------------------------------------------------------
(* The review UI (index.html): one upload at a time, sent to the handler   *)

\* the ids of ocrProviders, lines 41-45
OcrProviderIds ==
    {<<"g", "o", "o", "g", "l", "e", "-", "v", "i", "s", "i", "o", "n">>,
     <<"m", "i", "n", "d", "e", "e">>,
     <<"a", "z", "u", "r", "e", "-", "d", "i">>}

\* the files a user may pick: of a type the UI accepts or not
PickedFiles ==
    {[type |-> "application/pdf", data |-> <<"%", "P", "D", "F">>],
     [type |-> "text/plain", data |-> <<"h", "i">>]}

\* Number.prototype.toFixed(2) of num / den for a num >= 0 in 1/Scale dollars:
\* the amount to the nearest cent, in 1/Scale dollars
toFixed2(num, den) == ((2 * num + 100 * den) \div (200 * den)) * 100

\* the map callback of lines 130-142
processedItem(item, index) ==
    Let(numberOr(item, "unitPrice", 0), LAMBDA unitPrice :
        [id              |-> index + 1,
         product         |-> IF stringOf(item, "description") # <<>> THEN item.description
                             ELSE IF stringOf(item, "product") # <<>> THEN item.product
                             ELSE <<"U", "n", "k", "n", "o", "w", "n", " ", "I", "t", "e", "m">>,
         quantity        |-> numberOr(item, "quantity", 1),
         unit            |-> IF stringOf(item, "unit") # <<>> THEN item.unit ELSE S_each,
         unitCostIncGST  |-> unitPrice,
         unitCostExGST   |-> toFixed2(unitPrice * 10, 11),
         category        |-> "Groceries",
         markup          |-> 165,
         retailPrice     |-> toFixed2(unitPrice * 165, 100),
         customMarkup    |-> "",
         useCustomMarkup |-> FALSE])

\* What the fetch of line 104 and the text() of line 109 may settle with: the
\* response of the handler, or what the platform answers in its place: a network
\* error, a gateway error page, a page of the site served with status 200, the
\* JSON of another function deployed at the path, a JSON in the shape the UI
\* reads.
FetchReplies ==
    {[rejected |-> FALSE, status |-> responses[i].statusCode, json |-> TRUE,
      value |-> responses[i].body] : i \in 1..Len(responses)}
    \union
    {[rejected |-> TRUE],
     [rejected |-> FALSE, status |-> 502, json |-> FALSE],
     [rejected |-> FALSE, status |-> 200, json |-> FALSE],
     [rejected |-> FALSE, status |-> 200, json |-> TRUE,
      value |-> [projectId |-> "SET", credentials |-> "NOT SET", credLength |-> 0]],
     [rejected |-> FALSE, status |-> 200, json |-> TRUE,
      value |-> [supplier |-> S_ABCOrganics,
                 items |-> <<[description |-> <<"A", "p", "p", "l", "e", "s">>,
                              quantity |-> 2, unitPrice |-> 11 * Scale]>>]]}

\* how processInvoice ends on a reply, lines 109-155: "complete" or the error
\* it throws
outcomeOfFetch(reply) ==
    IF reply.rejected THEN "Failed to fetch"
    ELSE IF reply.status \notin 200..299 THEN "API Error"
    ELSE IF ~reply.json THEN "Invalid JSON response"
    ELSE IF "items" \notin DOMAIN reply.value THEN "Invalid response format: missing items array"
    ELSE "complete"

\* handleFileUpload, lines 47-64
handleFileUpload(picked) ==
    /\ ui.currentStep = 1
    /\ ui' = IF picked.type \in {"application/pdf", "image/jpeg", "image/jpg", "image/png"}
             THEN [ui EXCEPT !.invoiceFile = picked.data, !.currentStep = 2]
             ELSE ui
    /\ UNCHANGED <<variant, env, pc, event, file, azureData, enhancedData, abacusOutcome,
                   pending, calls, log, responses, ocrReply, parked>>

\* the radio buttons of the providers on step 1, lines 287-296
setOcrProvider(id) ==
    /\ ui.currentStep = 1
    /\ ui' = [ui EXCEPT !.ocrProvider = id]
    /\ UNCHANGED <<variant, env, pc, event, file, azureData, enhancedData, abacusOutcome,
                   pending, calls, log, responses, ocrReply, parked>>

\* processInvoice up to the await of its fetch, lines 93-107: the button of
\* line 332 is there on step 2 and disabled while isProcessing
processInvoice ==
    /\ ui.currentStep = 2
    /\ ~ui.isProcessing
    /\ ui' = [ui EXCEPT !.isProcessing = TRUE,
                        !.processingStatus = <<"Processing">>,
                        !.fetching = TRUE,
                        !.fetched = NoFetch]
    /\ Invoke([httpMethod |-> "POST",
               headers    |-> ("content-type" :> ContentType_Multipart),
               body       |-> encodeForm(ui.invoiceFile, ui.ocrProvider)])

\* FetchSettled had processInvoice no finally block: isProcessing is reset on
\* success only
FetchSettled_withoutFinally(reply) ==
    /\ ui.fetching
    /\ pc = "done"
    /\ ui' = IF outcomeOfFetch(reply) = "complete"
             THEN [ui EXCEPT
                     !.extractedItems = [i \in 1..Len(reply.value.items) |->
                                            processedItem(reply.value.items[i], i - 1)],
                     !.supplierName = IF stringOf(reply.value, "supplier") # <<>>
                                      THEN reply.value.supplier ELSE S_UnknownSupplier,
                     !.processingStatus = <<"Complete">>,
                     !.currentStep = 3,
                     !.isProcessing = FALSE,
                     !.fetching = FALSE,
                     !.fetched = reply]
             ELSE [ui EXCEPT
                     !.processingStatus = <<"Error", outcomeOfFetch(reply)>>,
                     !.fetching = FALSE,
                     !.fetched = reply]
    /\ UNCHANGED <<variant, env, pc, event, file, azureData, enhancedData, abacusOutcome,
                   pending, calls, log, responses, ocrReply, parked>>

\* the rest of processInvoice once the fetch has settled, lines 109-155
FetchSettled(reply) ==
    /\ ui.fetching
    /\ pc = "done"
    /\ ui' = IF outcomeOfFetch(reply) = "complete"
             THEN [ui EXCEPT
                     !.extractedItems = [i \in 1..Len(reply.value.items) |->
                                            processedItem(reply.value.items[i], i - 1)],
                     !.supplierName = IF stringOf(reply.value, "supplier") # <<>>
                                      THEN reply.value.supplier ELSE S_UnknownSupplier,
                     !.processingStatus = <<"Complete">>,
                     !.currentStep = 3,
                     !.isProcessing = FALSE,
                     !.fetching = FALSE,
                     !.fetched = reply]
             ELSE [ui EXCEPT
                     !.processingStatus = <<"Error", outcomeOfFetch(reply)>>,
                     !.isProcessing = FALSE,
                     !.fetching = FALSE,
                     !.fetched = reply]
    /\ UNCHANGED <<variant, env, pc, event, file, azureData, enhancedData, abacusOutcome,
                   pending, calls, log, responses, ocrReply, parked>>

\* resetProcess, lines 212-219: the button of line 367 is there on step 3
resetProcess ==
    /\ ui.currentStep = 3
    /\ ui' = [ui EXCEPT !.currentStep = 1, !.invoiceFile = <<>>, !.extractedItems = <<>>,
                        !.supplierName = <<>>, !.processingStatus = <<>>,
                        !.isProcessing = FALSE]
    /\ UNCHANGED <<variant, env, pc, event, file, azureData, enhancedData, abacusOutcome,
                   pending, calls, log, responses, ocrReply, parked>>

\* the handler is deployed with its credentials configured
InitUI ==
    /\ Init
    /\ env = [azureEndpoint |-> TRUE, azureKey |-> TRUE, abacusKey |-> TRUE]

NextUI ==
    \/ \E picked \in PickedFiles : handleFileUpload(picked)
    \/ \E id \in OcrProviderIds : setOcrProvider(id)
    \/ processInvoice
    \/ AcceptPost
    \/ CheckCredentials
    \/ DecodeUpload
    \/ BeginExtract
    \/ \E r \in InvoiceReplies : InvoiceReply(r)
    \/ \E r \in ReadReplies : ReadReply(r)
    \/ BeginEnhance
    \/ \E r \in EndpointReplies : EndpointReply(r)
    \/ PredictionReply
    \/ CallTimeout
    \/ FormatAndRespond
    \/ \E reply \in FetchReplies : FetchSettled(reply)
    \/ resetProcess

SpecUI == InitUI /\ [][NextUI]_vars

----------------------------------------------------------------------------
(* The review UI and the response it reads                                 *)

\* the review table shows the items of a response formatted by the handler
showsFormatted ==
    /\ ui.currentStep = 3
    /\ formatted
    /\ ui.fetched = [rejected |-> FALSE, status |-> 200, json |-> TRUE,
                     value |-> responses[1].body]

\* C26: the JSON the response formatter emits is the contract the review UI
\* consumes: an item formatted with costExGST = c, c > 0, is shown in the
\* review table with a unit cost derived from c, not with 0.
C26_UiShowsUnitCost ==
    showsFormatted =>
        /\ Len(ui.extractedItems) = Len(responses[1].body.items)
        /\ \A i \in 1..Len(ui.extractedItems) :
              responses[1].body.items[i].costExGST > 0 =>
                  /\ ui.extractedItems[i].unitCostIncGST > 0
                  /\ ui.extractedItems[i].unitCostExGST > 0

\* the reply that settled the fetch is OK, has a JSON body and an items array
usable(reply) ==
    /\ ~reply.rejected
    /\ reply.status \in 200..299
    /\ reply.json
    /\ "items" \in DOMAIN reply.value

\* C30: processInvoice sets isProcessing to true when it starts and
\* isProcessing is false once it has finished, on every path; currentStep
\* becomes 3 and extractedItems is replaced only after a response that is OK,
\* parses as JSON and has an items array, and on every failing path (HTTP
\* error, invalid JSON, missing items array, network error) currentStep and
\* extractedItems keep their previous values.
C30_ProcessInvoiceSettles ==
    /\ [](ui.fetching <=> ui.isProcessing)
    /\ [][(~ui.fetching /\ ui'.fetching) => (~ui.isProcessing /\ ui'.isProcessing)]_vars
    /\ [][(ui.fetching /\ ~ui'.fetching) =>
             /\ ~ui'.isProcessing
             /\ IF usable(ui'.fetched)
                THEN /\ ui'.currentStep = 3
                     /\ Len(ui'.extractedItems) = Len(ui'.fetched.value.items)
                     /\ \A i \in 1..Len(ui'.extractedItems) : ui'.extractedItems[i].id = i
                ELSE /\ ui'.currentStep = ui.currentStep
                     /\ ui'.extractedItems = ui.extractedItems]_vars
    /\ [][(ui'.currentStep = 3 /\ ui.currentStep # 3) => usable(ui'.fetched)]_vars

\* processInvoice has failed on a 500 of the handler: the UI is still on step
\* 2, shows the error and is ready for another try
C30_FailedOnHttpError ==
    /\ ~ui.fetching
    /\ ~ui.isProcessing
    /\ ~ui.fetched.rejected
    /\ ui.fetched.status = 500
    /\ ui.processingStatus = <<"Error", "API Error">>
    /\ ui.currentStep = 2
    /\ ui.extractedItems = <<>>

====
